---------------------------- MODULE Spec2Model ----------------------------
(***************************************************************************)
(* Model of src/main.py: the CAN client of the air-conditioner GUI.        *)
(*                                                                         *)
(*   CANClient._build_data   the frame encoder (a pure function)           *)
(*   CANClient._rx_loop      the reader: classifies and decodes a frame    *)
(*                           and puts the events on the rx queue           *)
(*   ACControllerApp._poll   the periodic consumer: drains the queue,      *)
(*                           updates the displayed state and the liveness  *)
(*                           records, fires the timeout resets             *)
(*                                                                         *)
(*   on_connect, on_disconnect, CANClient.open and close                   *)
(*   on_start, on_stop, on_set and send_from_key, the command handlers     *)
(*   on_send_speeds, on_send_temps, the handlers of the parameter tabs     *)
(*   CANConfig.load_from_file, the signatures and the messages section     *)
(*                                                                         *)
(* The specifications share the variables:                                 *)
(*   SpecEnc   applies _build_data to every schema entry of a bounded set  *)
(*   SpecRound applies it to scaled fields whose products are ties         *)
(*   SpecTag   applies it to one field under every tag and width           *)
(*   SpecRx    applies the reader's dispatch to every frame of a bounded   *)
(*             set, under every configuration of the two signatures        *)
(*   Spec      the running application: reader, queue, poll loop, clock    *)
(*   SpecLive  the same on a bus of two frames, with the fairness of the   *)
(*             Tk timer and of the threads                                 *)
(*   SpecNib   one controller frame under every value of the state byte    *)
(*   SpecId    one frame and SET under files that declare the ids in       *)
(*             every form                                                  *)
(*   SpecCmd   the running application with its command handlers           *)
(*   SpecPar   the running application with the parameter tabs' handlers   *)
(*   SpecConn  connecting and disconnecting in any order, more than once   *)
(***************************************************************************)
EXTENDS Integers, Sequences, FiniteSets, TLC

VARIABLES
    \* ---- encoder harness (SpecEnc) ----
    msg_def,          \* the schema entry handed to _build_data
    ctx,              \* the context handed to _build_data
    data,             \* the payload _build_data returned
    encPc,            \* "call" before the call, "done" after it, else "idle"
    \* ---- the application ----
    clock,            \* time.time(), in seconds
    app,              \* the fields of ACControllerApp that _poll works on
    _rx_q,            \* ACControllerApp._rx_q, the event queue
    clients,          \* every CANClient made so far, with its reader thread
    _client,          \* ACControllerApp._client: an index of clients, 0 = None
    cmd,              \* the last run of a command handler and what it sent
    \* ---- history, written by no code ----
    seen,             \* per channel: _poll has processed a snapshot of it
    last_snap,        \* the last controller event _poll has processed
    resets,           \* per channel: resets fired since its last snapshot
    rx_msg,           \* SpecRx: the frame its reader received, NoMsg before
    published         \* the items handed to put since _poll last ran

encVars == <<msg_def, ctx, data, encPc>>

appVars == <<clock, app, _rx_q, clients, _client, cmd,
            seen, last_snap, resets, rx_msg, published>>

vars == <<msg_def, ctx, data, encPc,
          clock, app, _rx_q, clients, _client, cmd,
          seen, last_snap, resets, rx_msg, published>>

-----------------------------------------------------------------------------
(* Bounds *)

\* longest template of arbitrary items
MaxItems == 3
\* longest template of one-byte items, and longest literal data list
MaxNarrow == 9
\* longest payload of a received frame
MaxLen == 9
\* most events waiting on the queue
MaxQueue == 3
\* most CANClient objects made
MaxClients == 1
\* most CANClient objects made where connecting again is what is checked
MaxConns == 2
\* most runs of a command handler
MaxCmds == 1
\* most runs of a handler of the parameter tabs
MaxSends == 2
\* largest magnitude of a context value where rounding is what is checked
MaxVal == 5
\* the clock when the application is constructed, its step and its end
StartTime == 20
TickStep == 5
MaxTime == 50

-----------------------------------------------------------------------------
(* Generic helpers *)

None == "None"

Reverse(s) == [i \in 1..Len(s) |-> s[Len(s) + 1 - i]]

\* s[:n]
Take(s, n) == SubSeq(s, 1, IF Len(s) < n THEN Len(s) ELSE n)

\* all sequences over S of length 0..n
SeqsUpTo(S, n) == UNION {[1..k -> S] : k \in 0..n}

\* x & 0xFF on a Python int (two's complement: the result is in 0..255)
Byte(x) == x % 256

\* (x >> (8*i)) & 0xFF on a Python int (an arithmetic, flooring shift)
ByteAt(x, i) == (x \div (256 ^ i)) % 256

\* d.get(key, default) on a dict held as [has |-> its keys, v |-> its values]
Get(d, key, default) == IF key \in d.has THEN d.v[key] ELSE default

-----------------------------------------------------------------------------
(* CANClient._build_data, src/main.py:136-169 *)

\* PyRound whose ties go away from zero
PyRound_HalfAway(n, d) ==
    LET q == n \div d
        r == n % d
    IN  IF 2 * r < d THEN q
        ELSE IF 2 * r > d THEN q + 1
        ELSE IF q >= 0 THEN q + 1 ELSE q

\* int(round(float(val) * scale)) with scale = sn/sd, sd > 0: Python 3's
\* round() of a float rounds to nearest, a tie going to the even integer.
PyRound(n, d) ==
    LET q == n \div d
        r == n % d
    IN  IF 2 * r < d THEN q
        ELSE IF 2 * r > d THEN q + 1
        ELSE IF q % 2 = 0 THEN q ELSE q + 1

\* lines 148-153: the integer a field item encodes
FieldNum(item, c) ==
    LET val == Get(c, item.field, 0)
    IN  PyRound(val * item.scale[1], item.scale[2])

\* FieldBytes with the two orders of width 2 exchanged
FieldBytes_Swapped2(num, width, endian) ==
    IF width = 1 THEN <<Byte(num)>>
    ELSE IF width = 2 THEN
        LET b0 == Byte(num)
            b1 == ByteAt(num, 1)
        IN  IF endian = "le" THEN <<b1, b0>> ELSE <<b0, b1>>
    ELSE IF width = 4 THEN
        LET bs == [i \in 1..4 |-> ByteAt(num, i - 1)]
        IN  IF endian = "be" THEN Reverse(bs) ELSE bs
    ELSE <<Byte(num)>>

\* FieldBytes whose big-endian width 4 exchanges the two 16-bit halves only
FieldBytes_HalfSwap4(num, width, endian) ==
    IF width = 1 THEN <<Byte(num)>>
    ELSE IF width = 2 THEN
        LET b0 == Byte(num)
            b1 == ByteAt(num, 1)
        IN  IF endian = "le" THEN <<b0, b1>> ELSE <<b1, b0>>
    ELSE IF width = 4 THEN
        LET bs == [i \in 1..4 |-> ByteAt(num, i - 1)]
        IN  IF endian = "be" THEN <<bs[3], bs[4], bs[1], bs[2]>> ELSE bs
    ELSE <<Byte(num)>>

\* lines 154-164: the bytes one field item appends
FieldBytes(num, width, endian) ==
    IF width = 1 THEN <<Byte(num)>>
    ELSE IF width = 2 THEN
        LET b0 == Byte(num)
            b1 == ByteAt(num, 1)
        IN  IF endian = "le" THEN <<b0, b1>> ELSE <<b1, b0>>
    ELSE IF width = 4 THEN
        LET bs == [i \in 1..4 |-> ByteAt(num, i - 1)]
        IN  IF endian = "be" THEN Reverse(bs) ELSE bs
    ELSE <<Byte(num)>>

\* lines 142-165: the loop over the template from item i on, out being the
\* bytes emitted so far.  A bare integer and a constant item "continue", so
\* the length test that breaks the loop runs after a field item only.
RECURSIVE TemplateLoop(_, _, _, _)
TemplateLoop(tpl, c, i, out) ==
    IF i > Len(tpl) THEN out
    ELSE LET item == tpl[i] IN
         IF item.kind = "int"
         THEN TemplateLoop(tpl, c, i + 1, Append(out, Byte(item.value)))
         ELSE IF item.field = None
         THEN TemplateLoop(tpl, c, i + 1, Append(out, Byte(item.value)))
         ELSE LET out2 == out \o FieldBytes(FieldNum(item, c), item.bytes,
                                            item.endian)
              IN  IF Len(out2) >= 8 THEN out2
                  ELSE TemplateLoop(tpl, c, i + 1, out2)

\* PadLoop that stops one byte early
RECURSIVE PadLoop_Short(_)
PadLoop_Short(d) == IF Len(d) < 7 THEN PadLoop_Short(Append(d, 0)) ELSE d

\* lines 167-168: while len(data) < 8: data.append(0)
RECURSIVE PadLoop(_)
PadLoop(d) == IF Len(d) < 8 THEN PadLoop(Append(d, 0)) ELSE d

_build_data(m, c) ==
    LET d0 == IF m.has_data
              THEN Take([i \in 1..Len(m.data) |-> Byte(m.data[i])], 8)
              ELSE Take(TemplateLoop(m.data_template, c, 1, <<>>), 8)
    IN  Take(PadLoop(d0), 8)

-----------------------------------------------------------------------------
(* The schema entries and contexts the encoder is applied to *)

IntItem(v) ==
    [kind |-> "int", value |-> v, field |-> None, scale |-> <<1, 1>>,
     bytes |-> 1, endian |-> "le"]

ConstItem(v) ==
    [kind |-> "dict", value |-> v, field |-> None, scale |-> <<1, 1>>,
     bytes |-> 1, endian |-> "le"]

FieldItem(f, s, w, e) ==
    [kind |-> "dict", value |-> 0, field |-> f, scale |-> s,
     bytes |-> w, endian |-> e]

\* items of every kind, width and byte order; 3 is a width the code has no
\* branch for, "big" an endianness tag that is neither 'le' nor 'be'
WideItems ==
    {IntItem(511), ConstItem(-2)}
    \cup {FieldItem("value", <<1, 1>>, w, e) : w \in {1, 2, 3, 4}, e \in {"le", "be"}}
    \cup {FieldItem("value", <<1, 2>>, w, "le") : w \in {1, 2}}
    \cup {FieldItem("value", <<1, 1>>, w, "big") : w \in {2, 4}}
    \cup {FieldItem("mode", <<1, 1>>, 1, "le")}

NarrowItems == {IntItem(511), FieldItem("value", <<1, 1>>, 1, "le")}

Templates == SeqsUpTo(WideItems, MaxItems) \cup SeqsUpTo(NarrowItems, MaxNarrow)

Literals == SeqsUpTo({7, 511}, MaxNarrow)

MsgDefs ==
    {[has_data |-> FALSE, data |-> <<>>, data_template |-> t] : t \in Templates}
    \cup {[has_data |-> TRUE, data |-> l, data_template |-> <<>>] : l \in Literals}

\* 16909060 = 0x01020304: four different bytes; 5 and -3 are ties at scale 1/2
Contexts ==
    {[has |-> {}, v |-> [value |-> 0, mode |-> 0]]}
    \cup {[has |-> {"value", "mode"}, v |-> [value |-> x, mode |-> 32]] :
             x \in {5, -3, 16909060}}

-----------------------------------------------------------------------------
(* CANClient._rx_loop: what one received frame puts on the rx queue,       *)
(* src/main.py:181-235.  A frame is [arbitration_id, is_extended_id, data];*)
(* a dict event is a record with exactly the dict's keys; a str event is a *)
(* record of type "str" holding the text's tag and the values formatted    *)
(* into it.                                                                *)

HexDigit == <<"0", "1", "2", "3", "4", "5", "6", "7",
              "8", "9", "A", "B", "C", "D", "E", "F">>

\* f"{b:02X}"
Hex2(b) == HexDigit[(b \div 16) + 1] \o HexDigit[(b % 16) + 1]

\* f"{n:X}" for n >= 0
RECURSIVE HexStr(_)
HexStr(n) == IF n < 16 THEN HexDigit[n + 1]
             ELSE HexStr(n \div 16) \o HexDigit[(n % 16) + 1]

\* MatchesTelemetry asking for exactly 8 bytes
MatchesTelemetry_Exact(cfg, msg) ==
    /\ msg.arbitration_id = cfg.telemetry_id
    /\ msg.is_extended_id = cfg.telemetry_ext
    /\ Len(msg.data) = 8

\* line 187: the controller telemetry signature
MatchesTelemetry(cfg, msg) ==
    /\ msg.arbitration_id = cfg.telemetry_id
    /\ msg.is_extended_id = cfg.telemetry_ext
    /\ Len(msg.data) >= 8

\* line 205: the inverter signature
MatchesInverter(cfg, msg) ==
    /\ msg.arbitration_id = cfg.inverter_id
    /\ msg.is_extended_id = cfg.inverter_ext
    /\ Len(msg.data) >= 3

\* line 184: self._dbg(f"RX id=0x{got_id:X} ext={got_ext} len={got_len}")
\* (the wall-clock prefix of the line is left out)
DbgRxLine(msg) ==
    [type |-> "str", text |-> "DBG: RX", id |-> HexStr(msg.arbitration_id),
     ext |-> msg.is_extended_id, len |-> Len(msg.data)]

\* TelemetryEvent reading the fan and state bytes one place early
TelemetryEvent_Shifted(d) ==
    [type |-> "telemetry", err |-> d[1], set |-> d[2], temp |-> d[3],
     cond |-> d[4], fan_raw |-> d[6], state_raw |-> d[7], raw |-> d]

\* lines 189-198
TelemetryEvent(d) ==
    [type |-> "telemetry", err |-> d[1], set |-> d[2], temp |-> d[3],
     cond |-> d[4], fan_raw |-> d[7], state_raw |-> d[8], raw |-> d]

\* lines 199-201
TelemetryLine(d) ==
    [type |-> "str", text |-> "TELEM", set |-> d[2], temp |-> d[3],
     cond |-> d[4], fan_byte |-> Hex2(d[7]), state_byte |-> Hex2(d[8]),
     err |-> d[1]]

\* InverterKeys whose err5 needs one more byte than it reads
InverterKeys_Late(got_len) ==
    {"type", "cur", "volt", "temp", "raw"}
    \cup (IF got_len > 6 THEN {"err5"} ELSE {})
    \cup (IF got_len >= 7 THEN {"state6"} ELSE {})
    \cup (IF got_len >= 8 THEN {"state7"} ELSE {})

\* lines 207-217: the keys err5, state6, state7 exist only from their length on
InverterKeys(got_len) ==
    {"type", "cur", "volt", "temp", "raw"}
    \cup (IF got_len >= 6 THEN {"err5"} ELSE {})
    \cup (IF got_len >= 7 THEN {"state6"} ELSE {})
    \cup (IF got_len >= 8 THEN {"state7"} ELSE {})

InverterEvent(d) ==
    [k \in InverterKeys(Len(d)) |->
        CASE k = "type" -> "inv"
          [] k = "cur" -> d[1]
          [] k = "volt" -> d[2]
          [] k = "temp" -> d[3]
          [] k = "raw" -> SubSeq(d, 1, IF Len(d) > 3 THEN Len(d) ELSE 3)
          [] k = "err5" -> d[6]
          [] k = "state6" -> d[7]
          [] k = "state7" -> d[8]]

\* lines 219-224
InverterLine(d) ==
    [type |-> "str", text |-> "INV", cur |-> d[1], volt |-> d[2],
     temp |-> d[3],
     err5 |-> IF Len(d) >= 6 THEN Hex2(d[6]) ELSE "",
     st6 |-> IF Len(d) >= 7 THEN ToString(d[7]) ELSE "",
     st7 |-> IF Len(d) >= 8 THEN ToString(d[8]) ELSE ""]

\* lines 228-233
NotMatchedLine(cfg, msg) ==
    [type |-> "str", text |-> "DBG: not matched",
     id |-> HexStr(msg.arbitration_id), ext |-> msg.is_extended_id,
     len |-> Len(msg.data),
     tid |-> HexStr(cfg.telemetry_id), text_ext |-> cfg.telemetry_ext,
     iid |-> HexStr(cfg.inverter_id), iext |-> cfg.inverter_ext]

\* lines 234-235
CanRxLine(msg) ==
    [type |-> "str", text |-> "CAN RX", id |-> HexStr(msg.arbitration_id),
     data |-> [i \in 1..Len(msg.data) |-> Hex2(msg.data[i])]]

\* Dispatch that puts nothing more for a frame matching neither signature
Dispatch_DropUnmatched(cfg, msg) ==
    <<DbgRxLine(msg)>> \o
    (IF MatchesTelemetry(cfg, msg)
     THEN <<TelemetryEvent(msg.data), TelemetryLine(msg.data)>>
     ELSE IF MatchesInverter(cfg, msg)
     THEN <<InverterEvent(msg.data), InverterLine(msg.data)>>
     ELSE <<>>)

\* Dispatch without the line of _dbg
Dispatch_NoDbg(cfg, msg) ==
    IF MatchesTelemetry(cfg, msg)
    THEN <<TelemetryEvent(msg.data), TelemetryLine(msg.data)>>
    ELSE IF MatchesInverter(cfg, msg)
    THEN <<InverterEvent(msg.data), InverterLine(msg.data)>>
    ELSE <<NotMatchedLine(cfg, msg), CanRxLine(msg)>>

\* lines 181-235: the events one frame puts on the queue, in order
Dispatch(cfg, msg) ==
    <<DbgRxLine(msg)>> \o
    (IF MatchesTelemetry(cfg, msg)
     THEN <<TelemetryEvent(msg.data), TelemetryLine(msg.data)>>
     ELSE IF MatchesInverter(cfg, msg)
     THEN <<InverterEvent(msg.data), InverterLine(msg.data)>>
     ELSE <<NotMatchedLine(cfg, msg), CanRxLine(msg)>>)

-----------------------------------------------------------------------------
(* ACControllerApp: the state _poll reads and writes.  A Tk variable holds  *)
(* what was last set on it; an Optional[int] that is None holds NoInt.  The *)
(* Russian texts are given in English, and the dash placeholder as "-".     *)

NoInt == -1

\* line 284
TIMEOUT_S == 10

\* lines 253-260
MAIN_STATE ==
    [n \in 0..5 |-> CASE n = 0 -> "off" [] n = 1 -> "testing"
                      [] n = 2 -> "standby" [] n = 3 -> "running"
                      [] n = 4 -> "error" [] n = 5 -> "purge"]

\* lines 261-267
SUB_STATE ==
    [n \in 0..4 |-> CASE n = 0 -> "before off" [] n = 1 -> "off"
                      [] n = 2 -> "running" [] n = 3 -> "before standby"
                      [] n = 4 -> "standby"]

\* lines 270-276
INV_MAIN ==
    [n \in 0..4 |-> CASE n = 0 -> "off" [] n = 1 -> "pause"
                      [] n = 2 -> "soft off" [] n = 3 -> "on"
                      [] n = 4 -> "before off"]

\* lines 277-282
INV_SUB ==
    [n \in 0..3 |-> CASE n = 0 -> "off" [] n = 1 -> "on"
                      [] n = 2 -> "pause" [] n = 3 -> "soft off"]

\* Lookup that renders a value outside the table as the placeholder
Lookup_Dash(table, n) ==
    IF n \in DOMAIN table THEN table[n] ELSE "-"

\* TABLE.get(n, f"unknown({n})")
Lookup(table, n) ==
    IF n \in DOMAIN table THEN table[n] ELSE "unknown(" \o ToString(n) \o ")"

\* lines 298-352: ACControllerApp.__init__
InitApp ==
    [var_temp |-> "--", var_cond |-> "--", var_set |-> "--",
     var_state_main |-> "-", var_state_sub |-> "-", var_err |-> "none",
     _last_main_state |-> NoInt, var_set_input |-> 25,
     var_c1 |-> 30, var_c2 |-> 60, var_c3 |-> 90,
     var_e1 |-> 30, var_e2 |-> 60, var_e3 |-> 90,
     var_t1 |-> 36, var_t2 |-> 38, var_t3 |-> 2, var_t4 |-> 3,
     _speed_conf |-> [c1 |-> 30, c2 |-> 60, c3 |-> 90,
                      e1 |-> 30, e2 |-> 60, e3 |-> 90],
     var_inv_cur |-> "--", var_inv_volt |-> "--", var_inv_temp |-> "--",
     var_inv_main |-> "-", var_inv_sub |-> "-", var_inv_errs |-> "-",
     var_fan_level_c |-> 0, var_fan_level_e |-> 0,
     var_fan_pct_c |-> 0, var_fan_pct_e |-> 0,
     _last_ctrl_rx |-> 0, _last_inv_rx |-> 0,
     _ctrl_valid |-> FALSE, _inv_valid |-> FALSE]

\* lines 632-640
_update_gauges_with_current_levels(a) ==
    LET pct_map_c == <<a._speed_conf.c1, a._speed_conf.c2, a._speed_conf.c3>>
        pct_map_e == <<a._speed_conf.e1, a._speed_conf.e2, a._speed_conf.e3>>
        lvl_c == a.var_fan_level_c
        lvl_e == a.var_fan_level_e
    IN  [a EXCEPT !.var_fan_pct_c = IF lvl_c \in 1..3 THEN pct_map_c[lvl_c] ELSE 0,
                  !.var_fan_pct_e = IF lvl_e \in 1..3 THEN pct_map_e[lvl_e] ELSE 0]

\* _reset_ctrl_display that also forgets the last Main state
_reset_ctrl_display_Full(a) ==
    _update_gauges_with_current_levels(
        [a EXCEPT !.var_temp = "--", !.var_cond = "--", !.var_set = "--",
                  !.var_state_main = "-", !.var_state_sub = "-",
                  !.var_err = "none", !._last_main_state = NoInt,
                  !.var_fan_level_c = 0, !.var_fan_level_e = 0])

\* lines 655-664
_reset_ctrl_display(a) ==
    _update_gauges_with_current_levels(
        [a EXCEPT !.var_temp = "--", !.var_cond = "--", !.var_set = "--",
                  !.var_state_main = "-", !.var_state_sub = "-",
                  !.var_err = "none",
                  !.var_fan_level_c = 0, !.var_fan_level_e = 0])

\* _reset_inv_display that clears the controller's setpoint as well
_reset_inv_display_All(a) ==
    [a EXCEPT !.var_inv_cur = "--", !.var_inv_volt = "--",
              !.var_inv_temp = "--", !.var_inv_main = "-",
              !.var_inv_sub = "-", !.var_inv_errs = "-", !.var_set = "--"]

\* lines 666-672
_reset_inv_display(a) ==
    [a EXCEPT !.var_inv_cur = "--", !.var_inv_volt = "--",
              !.var_inv_temp = "--", !.var_inv_main = "-",
              !.var_inv_sub = "-", !.var_inv_errs = "-"]

\* ", ".join(items)
RECURSIVE Join(_)
Join(items) ==
    IF Len(items) = 0 THEN ""
    ELSE IF Len(items) = 1 THEN items[1]
    ELSE items[1] \o ", " \o Join(Tail(items))

\* mask & (1 << bit)
BitSet(mask, bit) == (mask \div (2 ^ bit)) % 2 = 1

\* lines 676-683
_format_inv_errors(mask) ==
    LET items ==
            (IF BitSet(mask, 0) THEN <<"over-current">> ELSE <<>>)
         \o (IF BitSet(mask, 1) THEN <<"U1 abnormal">> ELSE <<>>)
         \o (IF BitSet(mask, 2) THEN <<"U2 abnormal">> ELSE <<>>)
         \o (IF BitSet(mask, 3) THEN <<"over-temperature">> ELSE <<>>)
         \o (IF BitSet(mask, 4) THEN <<"18V flag">> ELSE <<>>)
    IN  IF Len(items) > 0 THEN Join(items) ELSE "-"

Min(x, y) == IF x < y THEN x ELSE y
Max(x, y) == IF x > y THEN x ELSE y

\* lines 694-717: a controller telemetry event
PollTelemetry(a, item, t) ==
    LET fan_byte == item.fan_raw
        lvl_c == Max(0, Min(3, (fan_byte \div 16) % 16))
        lvl_e == Max(0, Min(3, fan_byte % 16))
        state_byte == item.state_raw
        main == (state_byte \div 16) % 16
        sub == state_byte % 16
        a1 == [a EXCEPT !._last_ctrl_rx = t, !._ctrl_valid = TRUE,
                        !.var_err = ToString(item.err),
                        !.var_set = ToString(item.set),
                        !.var_temp = ToString(item.temp),
                        !.var_cond = ToString(item.cond),
                        !.var_fan_level_c = lvl_c,
                        !.var_fan_level_e = lvl_e]
        a2 == _update_gauges_with_current_levels(a1)
    IN  [a2 EXCEPT !._last_main_state = main,
                   !.var_state_main = "Main: " \o Lookup(MAIN_STATE, main),
                   !.var_state_sub = "Sub:  " \o Lookup(SUB_STATE, sub)]

\* lines 724-736: an inverter event
PollInverter(a, item, t) ==
    LET a1 == [a EXCEPT !._last_inv_rx = t, !._inv_valid = TRUE,
                        !.var_inv_cur = ToString(item.cur),
                        !.var_inv_volt = ToString(item.volt),
                        !.var_inv_temp = ToString(item.temp)]
        a2 == IF "state7" \in DOMAIN item
              THEN [a1 EXCEPT !.var_inv_main =
                                  "Main: " \o Lookup(INV_MAIN, item.state7)]
              ELSE a1
        a3 == IF "state6" \in DOMAIN item
              THEN [a2 EXCEPT !.var_inv_sub =
                                  "Sub:  " \o Lookup(INV_SUB, item.state6)]
              ELSE a2
    IN  IF "err5" \in DOMAIN item
        THEN [a3 EXCEPT !.var_inv_errs = _format_inv_errors(item.err5)]
        ELSE a3

\* lines 690-745: one item taken off the queue.  A tx event and a str are
\* only written to the log widget, which is not part of the state.
PollItem(a, item, t) ==
    IF item.type = "telemetry" THEN PollTelemetry(a, item, t)
    ELSE IF item.type = "inv" THEN PollInverter(a, item, t)
    ELSE a

\* lines 689-747: get_nowait() until queue.Empty
RECURSIVE PollDrain(_, _, _)
PollDrain(a, q, t) ==
    IF Len(q) = 0 THEN a ELSE PollDrain(PollItem(a, Head(q), t), Tail(q), t)

\* TimedOut firing at exactly the timeout
TimedOut_AtLeast(valid, t, last_rx) == valid /\ (t - last_rx >= TIMEOUT_S)

\* TimedOut that does not ask for the valid flag
TimedOut_NoValidGuard(valid, t, last_rx) == t - last_rx > TIMEOUT_S

\* lines 750 and 755: the test that fires a timeout
TimedOut(valid, t, last_rx) == valid /\ (t - last_rx > TIMEOUT_S)

\* PollCtrlTimeout that leaves _ctrl_valid set
PollCtrlTimeout_KeepValid(a, t) ==
    IF TimedOut(a._ctrl_valid, t, a._last_ctrl_rx)
    THEN _reset_ctrl_display(a)
    ELSE a

\* lines 750-753
PollCtrlTimeout(a, t) ==
    IF TimedOut(a._ctrl_valid, t, a._last_ctrl_rx)
    THEN _reset_ctrl_display([a EXCEPT !._ctrl_valid = FALSE])
    ELSE a

\* lines 755-758
PollInvTimeout(a, t) ==
    IF TimedOut(a._inv_valid, t, a._last_inv_rx)
    THEN _reset_inv_display([a EXCEPT !._inv_valid = FALSE])
    ELSE a

\* PollResult that tests the timeouts only in a run that took an item off
\* the queue
PollResult_FrameDriven(a, q, t) ==
    IF Len(q) = 0 THEN a
    ELSE PollInvTimeout(PollCtrlTimeout(PollDrain(a, q, t), t), t)

\* lines 686-760: the application state after one run of _poll at time t
\* with q on the queue
PollResult(a, q, t) == PollInvTimeout(PollCtrlTimeout(PollDrain(a, q, t), t), t)

-----------------------------------------------------------------------------
(* The frames the bus delivers and the configurations of the signatures *)

\* an id as a section of the configuration file declares it: a YAML
\* integer, a YAML string, or no id key at all
IntId(n) == [kind |-> "int", n |-> n, s |-> ""]
StrId(s) == [kind |-> "str", n |-> 0, s |-> s]
NoId == [kind |-> "none", n |-> 0, s |-> ""]

\* the ids the configuration files declare: 0x5E0100, 0x5E0200, 0x5E0001,
\* 0x5E0300, 0x5E0400
DeclaredIds == {6160640, 6160896, 6160385, 6161152, 6161408}

\* int(s, 0) at lines 61 and 69: the base is taken from the prefix, so a
\* decimal and a 0x-prefixed text are both read; NoInt where it raises
PyIntAuto(s) ==
    IF \E n \in DeclaredIds : s = "0x" \o HexStr(n)
    THEN CHOOSE n \in DeclaredIds : s = "0x" \o HexStr(n)
    ELSE IF \E n \in DeclaredIds : s = ToString(n)
    THEN CHOOSE n \in DeclaredIds : s = ToString(n)
    ELSE NoInt

\* int(s) at line 129 on a str: base 10 only, a 0x-prefixed text raises
PyIntDec(s) ==
    IF \E n \in DeclaredIds : s = ToString(n)
    THEN CHOOSE n \in DeclaredIds : s = ToString(n)
    ELSE NoInt

\* the messages section of the usual configuration file: START and STOP
\* carry the setpoint in the last byte, SET the mode in byte 1 and the
\* target in the last byte, PARAMS_SPEED the six speeds; it has no
\* PARAMS_TEMP section and leaves the two signatures to the defaults
Messages ==
    [START |-> [id |-> IntId(6160385), extended |-> TRUE,
                m |-> [has_data |-> FALSE, data |-> <<>>,
                       data_template |->
                           <<IntItem(1), IntItem(0), IntItem(0), IntItem(0),
                             IntItem(0), IntItem(0), IntItem(0),
                             FieldItem("value", <<1, 1>>, 1, "le")>>]],
     STOP |-> [id |-> IntId(6160385), extended |-> TRUE,
               m |-> [has_data |-> FALSE, data |-> <<>>,
                      data_template |->
                          <<IntItem(2), IntItem(0), IntItem(0), IntItem(0),
                            IntItem(0), IntItem(0), IntItem(0),
                            FieldItem("value", <<1, 1>>, 1, "le")>>]],
     SET |-> [id |-> IntId(6160385), extended |-> TRUE,
              m |-> [has_data |-> FALSE, data |-> <<>>,
                     data_template |->
                         <<IntItem(3), FieldItem("mode", <<1, 1>>, 1, "le"),
                           IntItem(0), IntItem(0), IntItem(0), IntItem(0),
                           IntItem(0),
                           FieldItem("value", <<1, 1>>, 1, "le")>>]],
     PARAMS_SPEED |->
         [id |-> IntId(6160385), extended |-> TRUE,
          m |-> [has_data |-> FALSE, data |-> <<>>,
                 data_template |->
                     <<IntItem(4),
                       FieldItem("c1", <<1, 1>>, 1, "le"),
                       FieldItem("c2", <<1, 1>>, 1, "le"),
                       FieldItem("c3", <<1, 1>>, 1, "le"),
                       FieldItem("e1", <<1, 1>>, 1, "le"),
                       FieldItem("e2", <<1, 1>>, 1, "le"),
                       FieldItem("e3", <<1, 1>>, 1, "le")>>]]]

\* lines 59-63 and 67-71: the id of a signature, the built-in one where the
\* section declares none or int() raises
SignatureId(id, builtin) ==
    IF id.kind = "none" THEN builtin
    ELSE IF id.kind = "int" THEN id.n
    ELSE IF PyIntAuto(id.s) = NoInt THEN builtin
    ELSE PyIntAuto(id.s)

\* lines 56-73: what load_from_file makes of a messages section; a section
\* is kept as the file declares it, its id is not parsed here
load_from_file(messages) ==
    LET telem == IF "TELEMETRY" \in DOMAIN messages
                 THEN messages["TELEMETRY"]
                 ELSE [id |-> NoId, extended |-> TRUE]
        inv == IF "INVERTER_TELEMETRY" \in DOMAIN messages
               THEN messages["INVERTER_TELEMETRY"]
               ELSE [id |-> NoId, extended |-> TRUE]
    IN  [telemetry_id |-> SignatureId(telem.id, 6160640),
         telemetry_ext |-> telem.extended,
         inverter_id |-> SignatureId(inv.id, 6160896),
         inverter_ext |-> inv.extended,
         messages |-> messages]

\* the configuration of the usual file: the built-in signatures of lines
\* 40-43 and its messages section
DefaultCfg == load_from_file(Messages)

\* what load_from_file can leave in the four fields: the defaults, either
\* flag cleared, and both channels declared with one id
Configs ==
    {[telemetry_id |-> 6160640, telemetry_ext |-> te,
      inverter_id |-> ii, inverter_ext |-> ie, messages |-> Messages] :
        te \in BOOLEAN, ie \in BOOLEAN, ii \in {6160896, 6160640}}

\* three payloads, long enough for every length up to MaxLen
BasePayloads ==
    {[i \in 1..MaxLen |-> IF i <= 8 THEN <<0, 22, 24, 30, 0, 0, 35, 0>>[i] ELSE 170],
     [i \in 1..MaxLen |-> IF i <= 8 THEN <<1, 25, 26, 40, 5, 31, 49, 47>>[i] ELSE 85],
     [i \in 1..MaxLen |-> IF i <= 8 THEN <<7, 48, 35, 0, 0, 9, 1, 3>>[i] ELSE 255]}

Frame(id, ext, d) == [arbitration_id |-> id, is_extended_id |-> ext, data |-> d]

\* no frame received yet
NoMsg == Frame(-1, FALSE, <<>>)

\* every id (0x5E0100, 0x5E0200, 0x123), flag, payload and length
AllFrames ==
    {Frame(id, ext, SubSeq(b, 1, n)) :
        id \in {6160640, 6160896, 291}, ext \in BOOLEAN,
        b \in BasePayloads, n \in 0..MaxLen}

\* the frames of the running application: a controller frame of 8 and of 9
\* bytes, one of 7, an inverter frame of 3 and of 8 bytes, a foreign frame
SysFrames ==
    {Frame(6160640, TRUE, <<0, 22, 24, 30, 0, 0, 35, 0>>),
     Frame(6160640, TRUE, <<1, 25, 26, 40, 5, 31, 49, 47, 85>>),
     Frame(6160640, TRUE, <<0, 22, 24, 30, 0, 0, 35>>),
     Frame(6160896, TRUE, <<7, 48, 35>>),
     Frame(6160896, TRUE, <<7, 48, 35, 0, 0, 9, 1, 3>>),
     Frame(291, FALSE, <<1, 25, 26, 40, 5, 31, 49, 47>>)}

\* one controller frame and one inverter frame
LiveFrames ==
    {Frame(6160640, TRUE, <<0, 22, 24, 30, 0, 0, 35, 0>>),
     Frame(6160896, TRUE, <<7, 48, 35>>)}

\* two controller frames: fan byte 0x13, levels 1 and 3, and fan byte 0xF0,
\* the high nibble 15 being above the highest level
ParFrames ==
    {Frame(6160640, TRUE, <<0, 22, 24, 30, 0, 0, 19, 35>>),
     Frame(6160640, TRUE, <<0, 22, 24, 30, 0, 0, 240, 35>>)}

\* two controller frames: setpoint 22 with Main 2, setpoint 24 with Main 3
CmdFrames ==
    {Frame(6160640, TRUE, <<0, 22, 24, 30, 0, 0, 35, 35>>),
     Frame(6160640, TRUE, <<0, 24, 24, 30, 0, 0, 35, 50>>)}

Channels == {"ctrl", "inv"}

-----------------------------------------------------------------------------
(* CANClient: open, close and the reader thread, src/main.py:85-121, 171-239 *)

\* Put on a queue of two places that gives up when it is full
Put_Bounded(q, items) == Take(q \o items, 2)

\* rx_queue.put on the queue.Queue() of line 294, which has no maxsize: put
\* never blocks, never raises, and appends
Put(q, items) == q \o items

\* lines 102-112: the client CANClient(cfg, q).open() leaves, and the two
\* lines it puts on the queue
OpenedClient(cfg) == [cfg |-> cfg, bus |-> TRUE, stop |-> FALSE, pc |-> "check"]

OpenLines(cfg) ==
    <<[type |-> "str", text |-> "DBG: expecting",
       tid |-> HexStr(cfg.telemetry_id), text_ext |-> cfg.telemetry_ext,
       iid |-> HexStr(cfg.inverter_id), iext |-> cfg.inverter_ext],
      [type |-> "str", text |-> "DBG: GUI queue test"]>>

\* line 115: close() sets the stop event
StopSignalled(c) == [c EXCEPT !.stop = TRUE]

\* lines 116-121: close() shuts the bus down and drops it
ClosedClient(c) == [c EXCEPT !.bus = FALSE]

\* a close() has set the stop event and not yet dropped the bus: the Tk
\* thread is inside on_disconnect and runs no other handler
Closing == \E k \in 1..Len(clients) : clients[k].stop /\ clients[k].bus

\* the reader thread of client k has not returned from _rx_loop
Alive(k) == clients[k].pc # "done"

\* line 238: the line the except clause puts on the queue
RxErrLine == [type |-> "str", text |-> "CANRXERR"]

\* line 176: the reader tests the stop event
ReaderCheck(k) ==
    /\ clients[k].pc = "check"
    /\ clients' = [clients EXCEPT ![k].pc =
                       IF clients[k].stop THEN "done" ELSE "recv"]
    /\ UNCHANGED <<_rx_q, published>>

\* line 178: the reader calls recv on the bus it finds in self.bus
ReaderCall(k) ==
    /\ clients[k].pc = "recv"
    /\ clients[k].bus
    /\ clients' = [clients EXCEPT ![k].pc = "wait"]
    /\ UNCHANGED <<_rx_q, published>>

\* lines 178-235: recv returned a frame
ReaderFrame(k, msg) ==
    /\ clients[k].pc = "wait"
    /\ clients[k].bus
    /\ Len(_rx_q) + 3 <= MaxQueue
    /\ _rx_q' = Put(_rx_q, Dispatch(clients[k].cfg, msg))
    /\ published' = published \o Dispatch(clients[k].cfg, msg)
    /\ clients' = [clients EXCEPT ![k].pc = "check"]

\* lines 178-180: recv returned None after its 0.25 s
ReaderTimeout(k) ==
    /\ clients[k].pc = "wait"
    /\ clients' = [clients EXCEPT ![k].pc = "check"]
    /\ UNCHANGED <<_rx_q, published>>

\* ReaderError that lets the exception end the thread
ReaderError_Fatal(k) ==
    /\ \/ clients[k].pc = "wait"
       \/ clients[k].pc = "recv" /\ ~clients[k].bus
    /\ clients' = [clients EXCEPT ![k].pc = "done"]
    /\ UNCHANGED <<_rx_q, published>>

\* lines 237-238: recv raised, or self.bus was None (close() has dropped
\* it) and the call itself raised
ReaderError(k) ==
    /\ \/ clients[k].pc = "wait"
       \/ clients[k].pc = "recv" /\ ~clients[k].bus
    /\ Len(_rx_q) + 1 <= MaxQueue
    /\ _rx_q' = Put(_rx_q, <<RxErrLine>>)
    /\ published' = Append(published, RxErrLine)
    /\ clients' = [clients EXCEPT ![k].pc = "sleep"]

\* line 239: time.sleep(0.2) returns
ReaderWake(k) ==
    /\ clients[k].pc = "sleep"
    /\ clients' = [clients EXCEPT ![k].pc = "check"]
    /\ UNCHANGED <<_rx_q, published>>

\* lines 171-239: one step of the reader thread of client k, the bus
\* delivering the frames of the set frames
ReaderStep(k, frames) ==
    \/ ReaderCheck(k)
    \/ ReaderCall(k)
    \/ \E msg \in frames : ReaderFrame(k, msg)
    \/ ReaderTimeout(k)
    \/ ReaderError(k)
    \/ ReaderWake(k)

-----------------------------------------------------------------------------
(* The actions of the running application.  on_connect, on_disconnect, the  *)
(* command handlers and _poll run on the Tk thread, one at a time; a reader *)
(* thread runs between any two statements of theirs.  _poll takes the items *)
(* one by one while a reader may put: an item put during the loop is taken  *)
(* by this run or the next, as if put before or after it, so the run is one *)
(* step.  close() is two steps, since the reader may run between the stop   *)
(* event being set and the bus being dropped.                               *)

\* no controller event processed yet
NoSnap == [set |-> NoInt, state_raw |-> NoInt]

\* no command handler has run yet
NoCmd ==
    [n |-> 0, key |-> "", outcome |-> "none",
     ctx |-> [has |-> {}, v |-> [value |-> 0, mode |-> 0]],
     id |-> NoInt, ext |-> FALSE, data |-> <<>>]

Init ==
    /\ msg_def = [has_data |-> TRUE, data |-> <<>>, data_template |-> <<>>]
    /\ ctx = [has |-> {}, v |-> [value |-> 0, mode |-> 0]]
    /\ data = <<>>
    /\ encPc = "idle"
    /\ clock = StartTime
    /\ app = InitApp
    /\ _rx_q = <<>>
    /\ clients = <<>>
    /\ _client = 0
    /\ cmd = NoCmd
    /\ seen = [c \in Channels |-> FALSE]
    /\ last_snap = NoSnap
    /\ resets = [c \in Channels |-> 0]
    /\ rx_msg = NoMsg
    /\ published = <<>>

\* time passes
Tick ==
    /\ clock + TickStep <= MaxTime
    /\ clock' = clock + TickStep
    /\ UNCHANGED <<encVars, app, _rx_q, clients, _client, cmd,
                   seen, last_snap, resets, rx_msg, published>>

\* lines 563-573: on_connect, the open succeeding, while fewer than limit
\* clients have been made.  The client self._client held before, if any, is
\* neither closed nor stopped.
Connect(limit) ==
    /\ ~Closing
    /\ Len(clients) < limit
    /\ Len(_rx_q) + 2 <= MaxQueue
    /\ clients' = Append(clients, OpenedClient(DefaultCfg))
    /\ _client' = Len(clients) + 1
    /\ _rx_q' = Put(_rx_q, OpenLines(DefaultCfg))
    /\ published' = published \o OpenLines(DefaultCfg)
    /\ UNCHANGED <<encVars, clock, app, cmd, seen, last_snap, resets, rx_msg>>

on_connect == Connect(MaxClients)

\* lines 574-578: on_connect, load_from_file or open raising
on_connect_failed ==
    /\ ~Closing
    /\ _client' = 0
    /\ UNCHANGED <<encVars, clock, app, _rx_q, clients, cmd,
                   seen, last_snap, resets, rx_msg, published>>

\* lines 580-583 and 115: on_disconnect up to the stop event being set
on_disconnect ==
    /\ ~Closing
    /\ _client # 0
    /\ clients' = [clients EXCEPT ![_client] = StopSignalled(@)]
    /\ UNCHANGED <<encVars, clock, app, _rx_q, _client, cmd,
                   seen, last_snap, resets, rx_msg, published>>

\* close that also empties the queue
close_Flush ==
    /\ Closing
    /\ clients' = [clients EXCEPT ![_client] = ClosedClient(@)]
    /\ _client' = 0
    /\ _rx_q' = <<>>
    /\ UNCHANGED <<encVars, clock, app, cmd,
                   seen, last_snap, resets, rx_msg, published>>

\* lines 116-121 and 585-588: the rest of close() and of on_disconnect
close ==
    /\ Closing
    /\ clients' = [clients EXCEPT ![_client] = ClosedClient(@)]
    /\ _client' = 0
    /\ UNCHANGED <<encVars, clock, app, _rx_q, cmd,
                   seen, last_snap, resets, rx_msg, published>>

-----------------------------------------------------------------------------
(* The command handlers, src/main.py:591-620, 649-652 and 123-134 *)

\* int(s) at line 594, s being what str() made of a byte or a placeholder:
\* the byte, or None (held as NoInt) where int() raises
PyInt(s) ==
    IF \E n \in 0..255 : ToString(n) = s
    THEN CHOOSE n \in 0..255 : ToString(n) = s
    ELSE NoInt

\* _get_state_setpoint that gives 0 where the display holds no number
_get_state_setpoint_Zero(a) ==
    IF PyInt(a.var_set) = NoInt THEN 0 ELSE PyInt(a.var_set)

\* lines 591-596
_get_state_setpoint(a) == PyInt(a.var_set)

\* SetMode that takes 3, "running", for the standby state
SetMode_Running(main) == IF main = 3 THEN 0 ELSE 32

\* line 619: mode = 0x00 if (main == 2) else 0x20
SetMode(main) == IF main = 2 THEN 0 ELSE 32

\* lines 605 and 613: {"value": val}
ValueCtx(val) == [has |-> {"value"}, v |-> [value |-> val, mode |-> 0]]

\* line 620: {"value": val, "mode": mode}
SetCtx(val, mode) ==
    [has |-> {"value", "mode"}, v |-> [value |-> val, mode |-> mode]]

\* TxEvent that reports every frame as a standard one
TxEvent_Std(arb_id, is_ext, d) ==
    [type |-> "tx", id |-> arb_id, ext |-> FALSE, data |-> d]

\* line 134: the tx event
TxEvent(arb_id, is_ext, d) ==
    [type |-> "tx", id |-> arb_id, ext |-> is_ext, data |-> d]

\* line 129: int(msg_def.get("id")), NoInt where it raises
MessageId(id) ==
    IF id.kind = "int" THEN id.n
    ELSE IF id.kind = "str" THEN PyIntDec(id.s)
    ELSE NoInt

\* what a run of a command handler leaves in cmd when it built no frame: the
\* context it built, if any, and how the run ended
Outcome(key, out, c, d) ==
    [n |-> cmd.n + 1, key |-> key, outcome |-> out, ctx |-> c,
     id |-> NoInt, ext |-> FALSE, data |-> d]

\* lines 132-133: the same where a frame was built and handed to bus.send
FrameOutcome(key, out, c, arb_id, is_ext, d) ==
    [n |-> cmd.n + 1, key |-> key, outcome |-> out, ctx |-> c,
     id |-> arb_id, ext |-> is_ext, data |-> d]

\* lines 649-652 and 123-134: _send_can and send_from_key.  Without a
\* client or a bus, without a section for the key, or with an id int() does
\* not take, they raise before encoding; bus.send may raise, and then no tx
\* event is put.
_send_can(key, c) ==
    IF (IF _client = 0 THEN TRUE ELSE ~clients[_client].bus)
    THEN /\ cmd' = Outcome(key, "raised", c, <<>>)
         /\ UNCHANGED <<_rx_q, published>>
    ELSE LET messages == clients[_client].cfg.messages IN
         IF key \notin DOMAIN messages
         THEN /\ cmd' = Outcome(key, "no section", c, <<>>)
              /\ UNCHANGED <<_rx_q, published>>
         ELSE LET arb_id == MessageId(messages[key].id)
                  is_ext == messages[key].extended
                  d == _build_data(messages[key].m, c)
              IN  IF arb_id = NoInt
                  THEN /\ cmd' = Outcome(key, "bad id", c, <<>>)
                       /\ UNCHANGED <<_rx_q, published>>
                  ELSE \/ /\ Len(_rx_q) + 1 <= MaxQueue
                          /\ cmd' = FrameOutcome(key, "sent", c,
                                                 arb_id, is_ext, d)
                          /\ _rx_q' = Put(_rx_q, <<TxEvent(arb_id, is_ext, d)>>)
                          /\ published' =
                                 Append(published, TxEvent(arb_id, is_ext, d))
                       \/ /\ cmd' = FrameOutcome(key, "send raised", c,
                                                 arb_id, is_ext, d)
                          /\ UNCHANGED <<_rx_q, published>>

\* lines 599-605 and 607-613: on_start and on_stop differ in the key only
StartStop(key) ==
    /\ ~Closing
    /\ cmd.n < MaxCmds
    /\ LET val == _get_state_setpoint(app) IN
           IF val = NoInt
           THEN /\ cmd' = Outcome(key, "rejected", NoCmd.ctx, <<>>)
                /\ UNCHANGED <<_rx_q, published>>
           ELSE _send_can(key, ValueCtx(val))
    /\ UNCHANGED <<encVars, clock, app, clients, _client,
                   seen, last_snap, resets, rx_msg>>

on_start == StartStop("START")

on_stop == StartStop("STOP")

\* lines 615-620
on_set ==
    /\ ~Closing
    /\ cmd.n < MaxCmds
    /\ LET val == app.var_set_input
           main == app._last_main_state
           mode == SetMode(main)
       IN  _send_can("SET", SetCtx(val, mode))
    /\ UNCHANGED <<encVars, clock, app, clients, _client,
                   seen, last_snap, resets, rx_msg>>

\* the values the user gives the spinbox of line 397
SetInputs == {22, 25}

\* lines 396-397: the user changes the spinbox bound to var_set_input
set_input ==
    /\ ~Closing
    /\ \E v \in SetInputs \ {app.var_set_input} :
           app' = [app EXCEPT !.var_set_input = v]
    /\ UNCHANGED <<encVars, clock, _rx_q, clients, _client, cmd,
                   seen, last_snap, resets, rx_msg, published>>

\* lines 624-627: the context on_send_speeds builds from the six inputs
SpeedCtx(a) ==
    [has |-> {"c1", "c2", "c3", "e1", "e2", "e3"},
     v |-> [c1 |-> a.var_c1, c2 |-> a.var_c2, c3 |-> a.var_c3,
            e1 |-> a.var_e1, e2 |-> a.var_e2, e3 |-> a.var_e3]]

\* lines 645-646: the context on_send_temps builds
TempCtx(a) ==
    [has |-> {"t1", "t2", "t3", "t4"},
     v |-> [t1 |-> a.var_t1, t2 |-> a.var_t2,
            t3 |-> a.var_t3, t4 |-> a.var_t4]]

\* SpeedsSent that takes the inputs over however the send ended
SpeedsSent_Always(a, c, out) ==
    _update_gauges_with_current_levels([a EXCEPT !._speed_conf = c.v])

\* lines 628-630: _send_can raising ends the handler; after it returned,
\* the confirmed table takes the six values over and the gauges are redrawn
SpeedsSent(a, c, out) ==
    IF out = "sent"
    THEN _update_gauges_with_current_levels([a EXCEPT !._speed_conf = c.v])
    ELSE a

\* lines 623-630
on_send_speeds ==
    /\ ~Closing
    /\ cmd.n < MaxSends
    /\ _send_can("PARAMS_SPEED", SpeedCtx(app))
    /\ app' = SpeedsSent(app, SpeedCtx(app), cmd'.outcome)
    /\ UNCHANGED <<encVars, clock, clients, _client,
                   seen, last_snap, resets, rx_msg>>

\* lines 644-647
on_send_temps ==
    /\ ~Closing
    /\ cmd.n < MaxSends
    /\ _send_can("PARAMS_TEMP", TempCtx(app))
    /\ UNCHANGED <<encVars, clock, app, clients, _client,
                   seen, last_snap, resets, rx_msg>>

\* the values the user gives a speed input, and the input the user edits:
\* speed 1 of the condenser fan
SpeedInputs == {30, 45}

EditedInputs == {"var_c1"}

\* lines 537-555: the user moves the scale or edits the entry of an input
set_speed ==
    /\ ~Closing
    /\ \E f \in EditedInputs : \E v \in SpeedInputs \ {app[f]} :
           app' = [app EXCEPT ![f] = v]
    /\ UNCHANGED <<encVars, clock, _rx_q, clients, _client, cmd,
                   seen, last_snap, resets, rx_msg, published>>

-----------------------------------------------------------------------------

\* lines 171-239: a step of one of the reader threads, the bus delivering
\* the frames of the set frames
Reader(frames) ==
    \E k \in 1..Len(clients) :
        /\ ReaderStep(k, frames)
        /\ UNCHANGED <<encVars, clock, app, _client, cmd,
                       seen, last_snap, resets, rx_msg>>

_rx_loop == Reader(SysFrames)

\* the history of one run of _poll
RECURSIVE LastSnapshot(_, _)
LastSnapshot(q, before) ==
    IF Len(q) = 0 THEN before
    ELSE IF q[Len(q)].type = "telemetry"
    THEN [set |-> q[Len(q)].set, state_raw |-> q[Len(q)].state_raw]
    ELSE LastSnapshot(SubSeq(q, 1, Len(q) - 1), before)

SnapshotIn(q, type) == \E i \in 1..Len(q) : q[i].type = type

ResetsAfter(n, snapshot, fired) ==
    LET base == IF snapshot THEN 0 ELSE n
    IN  IF fired THEN Min(2, base + 1) ELSE base

\* lines 686-760
_poll ==
    LET t == clock    \* line 687: now = time.time()
        drained == PollDrain(app, _rx_q, t)
        ctrlFired == TimedOut(drained._ctrl_valid, t, drained._last_ctrl_rx)
        invFired == TimedOut(drained._inv_valid, t, drained._last_inv_rx)
    IN  /\ ~Closing
        /\ app' = PollResult(app, _rx_q, t)
        /\ _rx_q' = <<>>
        /\ seen' = [ctrl |-> seen.ctrl \/ SnapshotIn(_rx_q, "telemetry"),
                    inv |-> seen.inv \/ SnapshotIn(_rx_q, "inv")]
        /\ resets' = [ctrl |-> ResetsAfter(resets.ctrl,
                                   SnapshotIn(_rx_q, "telemetry"), ctrlFired),
                      inv |-> ResetsAfter(resets.inv,
                                   SnapshotIn(_rx_q, "inv"), invFired)]
        /\ last_snap' = LastSnapshot(_rx_q, last_snap)
        /\ published' = <<>>
        /\ UNCHANGED <<encVars, clock, clients, _client, cmd, rx_msg>>

Next ==
    \/ Tick
    \/ on_connect
    \/ on_connect_failed
    \/ on_disconnect
    \/ close
    \/ _rx_loop
    \/ _poll

Spec == Init /\ [][Next]_vars

\* line 760 and Tk's event loop: every run of _poll schedules the next one,
\* a handler that has begun runs to its end, time passes, and a reader
\* thread that can take a step is scheduled
Fairness ==
    /\ WF_vars(Tick)
    /\ WF_vars(_poll)
    /\ WF_vars(close)
    /\ WF_vars(Reader(LiveFrames))

\* SpecLive: the running application on a bus that carries one controller
\* frame and one inverter frame
NextLive ==
    \/ Tick
    \/ on_connect
    \/ on_disconnect
    \/ close
    \/ Reader(LiveFrames)
    \/ _poll

SpecLive == Init /\ [][NextLive]_vars /\ Fairness

-----------------------------------------------------------------------------
(* SpecCmd: the running application with its command handlers, on a bus     *)
(* that carries two controller frames, one in standby and one running       *)

NextCmd ==
    \/ Tick
    \/ on_connect
    \/ on_disconnect
    \/ close
    \/ Reader(CmdFrames)
    \/ _poll
    \/ on_start
    \/ on_stop
    \/ on_set
    \/ set_input

SpecCmd == Init /\ [][NextCmd]_vars

-----------------------------------------------------------------------------
(* SpecPar: the running application with the handlers of the parameter      *)
(* tabs, on a bus that carries controller frames with two fan bytes         *)

NextPar ==
    \/ Tick
    \/ on_connect
    \/ on_disconnect
    \/ close
    \/ Reader(ParFrames)
    \/ _poll
    \/ set_speed
    \/ on_send_speeds
    \/ on_send_temps

SpecPar == Init /\ [][NextPar]_vars

-----------------------------------------------------------------------------
(* SpecConn: connecting and disconnecting in any order, more than once *)

NextConn ==
    \/ Connect(MaxConns)
    \/ on_connect_failed
    \/ on_disconnect
    \/ close
    \/ Reader(LiveFrames)
    \/ _poll

SpecConn == Init /\ [][NextConn]_vars

-----------------------------------------------------------------------------
(* SpecRx: a connected client under any configuration receives one frame,   *)
(* which _poll then processes                                               *)

InitRx ==
    /\ msg_def = [has_data |-> TRUE, data |-> <<>>, data_template |-> <<>>]
    /\ ctx = [has |-> {}, v |-> [value |-> 0, mode |-> 0]]
    /\ data = <<>>
    /\ encPc = "idle"
    /\ clock = StartTime
    /\ app = InitApp
    /\ _rx_q = <<>>
    /\ \E cfg \in Configs :
           clients = <<[cfg |-> cfg, bus |-> TRUE, stop |-> FALSE, pc |-> "wait"]>>
    /\ _client = 1
    /\ cmd = NoCmd
    /\ seen = [c \in Channels |-> FALSE]
    /\ last_snap = NoSnap
    /\ resets = [c \in Channels |-> 0]
    /\ rx_msg = NoMsg
    /\ published = <<>>

RxOne ==
    /\ rx_msg = NoMsg
    /\ \E msg \in AllFrames : ReaderFrame(1, msg) /\ rx_msg' = msg
    /\ UNCHANGED <<encVars, clock, app, _client, cmd, seen, last_snap, resets>>

NextRx == RxOne \/ _poll

SpecRx == InitRx /\ [][NextRx]_vars

-----------------------------------------------------------------------------
(* SpecEnc: _build_data applied to one schema entry and one context *)

InitEnc ==
    /\ msg_def \in MsgDefs
    /\ ctx \in Contexts
    /\ data = <<>>
    /\ encPc = "call"
    /\ clock = StartTime
    /\ app = InitApp
    /\ _rx_q = <<>>
    /\ clients = <<>>
    /\ _client = 0
    /\ cmd = NoCmd
    /\ seen = [c \in Channels |-> FALSE]
    /\ last_snap = NoSnap
    /\ resets = [c \in Channels |-> 0]
    /\ rx_msg = NoMsg
    /\ published = <<>>

EncBuild ==
    /\ encPc = "call"
    /\ data' = _build_data(msg_def, ctx)
    /\ encPc' = "done"
    /\ UNCHANGED <<msg_def, ctx, appVars>>

NextEnc == EncBuild

SpecEnc == InitEnc /\ [][NextEnc]_vars

-----------------------------------------------------------------------------
(* Properties of the encoder, checked under SpecEnc *)

\* what the claims call the result before truncation and padding: the bytes
\* of all items, one after the other
RECURSIVE AllItemBytes(_, _)
AllItemBytes(tpl, c) ==
    IF Len(tpl) = 0 THEN <<>>
    ELSE LET item == Head(tpl)
             bytes == IF item.kind = "int" \/ item.field = None
                      THEN <<item.value % 256>>
                      ELSE FieldBytes(FieldNum(item, c), item.bytes, item.endian)
         IN  bytes \o AllItemBytes(Tail(tpl), c)

Untruncated ==
    IF msg_def.has_data
    THEN [i \in 1..Len(msg_def.data) |-> msg_def.data[i] % 256]
    ELSE AllItemBytes(msg_def.data_template, ctx)

\* the first 8 bytes of s, zeros after its end
FirstEightPadded(s) == [i \in 1..8 |-> IF i <= Len(s) THEN s[i] ELSE 0]

\* C1: _build_data returns exactly 8 bytes for every schema entry and every
\* context: a longer result is cut to its first 8 bytes, a shorter one is
\* padded with zeros at the end.
C1_EightBytes ==
    encPc = "done" =>
        /\ Len(data) = 8
        /\ \A i \in 1..8 : data[i] \in 0..255
        /\ data = FirstEightPadded(Untruncated)

\* a template whose items emit more than 8 bytes has been encoded
C1_Witness ==
    /\ encPc = "done"
    /\ ~msg_def.has_data
    /\ Len(Untruncated) > 8
    /\ Len(data) = 8

\* the encoding the claim states for one field: num mod 256 at width 1; low
\* then high byte at width 2 little-endian, high then low big-endian; bytes
\* 0..3 ascending at width 4 little-endian, descending big-endian
ClaimedFieldBytes(num, width, endian) ==
    LET b(k) == (num \div (256 ^ k)) % 256
    IN  CASE width = 1 -> <<num % 256>>
          [] width = 2 /\ endian = "le" -> <<b(0), b(1)>>
          [] width = 2 /\ endian = "be" -> <<b(1), b(0)>>
          [] width = 4 /\ endian = "le" -> <<b(0), b(1), b(2), b(3)>>
          [] width = 4 /\ endian = "be" -> <<b(3), b(2), b(1), b(0)>>

IsField(item) == item.kind = "dict" /\ item.field # None

\* round(value * scale), the value looked up in the context, 0 if absent
ClaimedNum(item, c) ==
    LET value == IF item.field \in c.has THEN c.v[item.field] ELSE 0
    IN  PyRound(value * item.scale[1], item.scale[2])

RECURSIVE ClaimedBytes(_, _)
ClaimedBytes(tpl, c) ==
    IF Len(tpl) = 0 THEN <<>>
    ELSE LET item == Head(tpl)
             bytes == IF IsField(item)
                      THEN ClaimedFieldBytes(ClaimedNum(item, c), item.bytes,
                                             item.endian)
                      ELSE <<item.value % 256>>
         IN  bytes \o ClaimedBytes(Tail(tpl), c)

\* the templates the claim speaks of: widths 1, 2, 4 and tags 'le', 'be'
PlainTemplate(tpl) ==
    \A i \in 1..Len(tpl) :
        IsField(tpl[i]) => tpl[i].bytes \in {1, 2, 4} /\ tpl[i].endian \in {"le", "be"}

\* C2: for a templated entry the payload holds the fields in declared order,
\* each the encoding of num = round(value * scale) in its width and byte
\* order (cut to 8 bytes and zero-padded).
C2_FieldLayout ==
    (encPc = "done" /\ ~msg_def.has_data /\ PlainTemplate(msg_def.data_template)) =>
        data = FirstEightPadded(ClaimedBytes(msg_def.data_template, ctx))

\* 0x01020304 as a little-endian width 2 field, then a big-endian width 4 one
C2_Witness ==
    /\ encPc = "done"
    /\ ~msg_def.has_data
    /\ msg_def.data_template = <<FieldItem("value", <<1, 1>>, 2, "le"),
                                 FieldItem("value", <<1, 1>>, 4, "be")>>
    /\ "value" \in ctx.has
    /\ ctx.v.value = 16909060
    /\ data = <<4, 3, 1, 2, 3, 4, 0, 0>>

\* the payload of the one-field template holding item with its tag set to e
OneFieldPayload(item, e) ==
    _build_data([has_data |-> FALSE, data |-> <<>>,
                 data_template |-> <<[item EXCEPT !.endian = e]>>], ctx)

\* C3: at width 2 and at width 4 the bytes of a big-endian field are the
\* bytes of the little-endian field of the same value in reverse order.
C3_EndianMirror ==
    \A i \in 1..Len(msg_def.data_template) :
        LET item == msg_def.data_template[i]
            w == item.bytes
        IN  (IsField(item) /\ w \in {2, 4}) =>
                /\ SubSeq(OneFieldPayload(item, "be"), 1, w)
                       = Reverse(SubSeq(OneFieldPayload(item, "le"), 1, w))
                /\ (encPc = "done" /\ Len(msg_def.data_template) = 1
                    /\ item.endian = "be") =>
                       SubSeq(data, 1, w)
                           = Reverse(SubSeq(OneFieldPayload(item, "le"), 1, w))

\* a big-endian width 4 field of four different bytes has been encoded
C3_Witness ==
    /\ encPc = "done"
    /\ msg_def.data_template = <<FieldItem("value", <<1, 1>>, 4, "be")>>
    /\ "value" \in ctx.has
    /\ ctx.v.value = 16909060
    /\ data = <<1, 2, 3, 4, 0, 0, 0, 0>>
    /\ OneFieldPayload(msg_def.data_template[1], "le") = <<4, 3, 2, 1, 0, 0, 0, 0>>

-----------------------------------------------------------------------------
(* Properties of the reader's dispatch, checked under SpecRx *)

Received == rx_msg # NoMsg

\* the frame's events are on the queue, _poll has not run yet
Fresh == Received /\ Len(_rx_q) = 3

\* _poll has processed the frame's events
Polled == Received /\ _rx_q = <<>>

RxCfg == clients[1].cfg

\* the two signatures as the claims state them
SigCtrl ==
    /\ rx_msg.arbitration_id = RxCfg.telemetry_id
    /\ rx_msg.is_extended_id = RxCfg.telemetry_ext
    /\ Len(rx_msg.data) >= 8

SigInv ==
    /\ rx_msg.arbitration_id = RxCfg.inverter_id
    /\ rx_msg.is_extended_id = RxCfg.inverter_ext
    /\ Len(rx_msg.data) >= 3

\* C4: a frame is a controller event iff id and flag equal the controller
\* signature and it has at least 8 bytes; otherwise an inverter event iff id
\* and flag equal the inverter signature and it has at least 3 bytes;
\* otherwise unmatched.  Only a controller event makes the controller
\* channel valid, only an inverter event the inverter channel.
C4_Classification ==
    /\ Fresh =>
         /\ (_rx_q[2].type = "telemetry") <=> SigCtrl
         /\ (_rx_q[2].type = "inv") <=> (~SigCtrl /\ SigInv)
         /\ (_rx_q[2].type = "str") <=> (~SigCtrl /\ ~SigInv)
    /\ Polled =>
         /\ app._ctrl_valid <=> SigCtrl
         /\ app._inv_valid <=> (~SigCtrl /\ SigInv)

\* a frame with the controller id and 7 bytes was received and not matched
C4_Witness ==
    /\ Fresh
    /\ RxCfg = DefaultCfg
    /\ rx_msg.arbitration_id = 6160640
    /\ rx_msg.is_extended_id
    /\ Len(rx_msg.data) = 7
    /\ _rx_q[2].type = "str"
    /\ _rx_q[2].text = "DBG: not matched"

\* the frame of C5, processed by _poll, the controller signature being the
\* built-in one
C5_Frame ==
    /\ Polled
    /\ rx_msg = Frame(6160640, TRUE, <<0, 22, 24, 30, 0, 0, 35, 0>>)
    /\ RxCfg.telemetry_id = 6160640
    /\ RxCfg.telemetry_ext

\* C5 as stated: the frame decodes to setpoint 22, temp 24, condenser 30,
\* both fan levels 0, Main state 2 and Sub state 3.
C5_Original ==
    C5_Frame =>
        /\ app.var_set = "22" /\ app.var_temp = "24" /\ app.var_cond = "30"
        /\ app.var_fan_level_c = 0 /\ app.var_fan_level_e = 0
        /\ app._last_main_state = 2
        /\ app.var_state_main = "Main: " \o Lookup(MAIN_STATE, 2)
        /\ app.var_state_sub = "Sub:  " \o Lookup(SUB_STATE, 3)

\* C5, amended: the frame decodes to setpoint 22, temp 24, condenser 30,
\* condenser fan level 2 and evaporator fan level 3 (byte 6 is 0x23, the
\* low nibble 3), Main state 0 and Sub state 0 (byte 7 is 0).
C5_Decoded ==
    C5_Frame =>
        /\ app.var_set = "22" /\ app.var_temp = "24" /\ app.var_cond = "30"
        /\ app.var_fan_level_c = 2 /\ app.var_fan_level_e = 3
        /\ app._last_main_state = 0
        /\ app.var_state_main = "Main: " \o Lookup(MAIN_STATE, 0)
        /\ app.var_state_sub = "Sub:  " \o Lookup(SUB_STATE, 0)

C5_Witness == C5_Frame /\ app._ctrl_valid /\ app.var_set = "22"

\* C6: a matched inverter frame of length L yields current, voltage and
\* temperature from bytes 0..2; its event has the key err5 iff L >= 6,
\* state6 iff L >= 7, state7 iff L >= 8, each with the byte's value; what
\* _poll shows for Main and Sub stays the placeholder iff the key is absent.
C6_InverterOptional ==
    LET d == rx_msg.data
        L == Len(rx_msg.data)
    IN  /\ (Fresh /\ _rx_q[2].type = "inv") =>
             LET ev == _rx_q[2] IN
             /\ ev.cur = d[1] /\ ev.volt = d[2] /\ ev.temp = d[3]
             /\ ("err5" \in DOMAIN ev) <=> (L >= 6)
             /\ ("state6" \in DOMAIN ev) <=> (L >= 7)
             /\ ("state7" \in DOMAIN ev) <=> (L >= 8)
             /\ (L >= 6) => ev.err5 = d[6]
             /\ (L >= 7) => ev.state6 = d[7]
             /\ (L >= 8) => ev.state7 = d[8]
        /\ (Polled /\ seen.inv) =>
             /\ app.var_inv_cur = ToString(d[1])
             /\ app.var_inv_volt = ToString(d[2])
             /\ app.var_inv_temp = ToString(d[3])
             /\ (app.var_inv_main = "-") <=> (L < 8)
             /\ (app.var_inv_sub = "-") <=> (L < 7)
             /\ (L >= 8) => app.var_inv_main = "Main: " \o Lookup(INV_MAIN, d[8])
             /\ (L >= 7) => app.var_inv_sub = "Sub:  " \o Lookup(INV_SUB, d[7])

\* an inverter frame of 6 bytes whose byte 5 is 0: the key err5 is there
\* with the value 0, the keys state6 and state7 are not
C6_Witness ==
    /\ Fresh
    /\ _rx_q[2].type = "inv"
    /\ Len(rx_msg.data) = 6
    /\ "err5" \in DOMAIN _rx_q[2]
    /\ _rx_q[2].err5 = 0
    /\ "state6" \notin DOMAIN _rx_q[2]
    /\ "state7" \notin DOMAIN _rx_q[2]

Unmatched == Received /\ ~SigCtrl /\ ~SigInv

\* C7: a frame matching neither signature leaves the reader running and
\* puts on the queue a diagnostic that determines its id and its bytes; no
\* displayed value, liveness record or history changes, before or after
\* _poll has taken the diagnostic off the queue.
C7_UnmatchedDiagnostic ==
    Unmatched =>
        /\ clients[1].pc = "check"
        /\ app = InitApp
        /\ seen = [c \in Channels |-> FALSE]
        /\ resets = [c \in Channels |-> 0]
        /\ (_rx_q # <<>>) =>
             /\ Len(_rx_q) = 3
             /\ _rx_q[3].type = "str"
             /\ _rx_q[3].text = "CAN RX"
             /\ \A f \in AllFrames :
                    CanRxLine(f) = _rx_q[3] =>
                        /\ f.arbitration_id = rx_msg.arbitration_id
                        /\ f.data = rx_msg.data

\* a foreign frame of 8 bytes has been received and its diagnostic polled
C7_Witness ==
    /\ Unmatched
    /\ Polled
    /\ rx_msg.arbitration_id = 291
    /\ Len(rx_msg.data) = 8

-----------------------------------------------------------------------------
(* Properties of the liveness records, checked under Spec *)

Valid(ch) == IF ch = "ctrl" THEN app._ctrl_valid ELSE app._inv_valid

LastRx(ch) == IF ch = "ctrl" THEN app._last_ctrl_rx ELSE app._last_inv_rx

\* C8: per channel the reset fires exactly once per silence period: a
\* channel that is stale (seen, not valid) has had exactly one reset since
\* its last snapshot, a valid channel none, and never more than one.
C8_ResetOncePerSilence ==
    \A ch \in Channels :
        /\ resets[ch] <= 1
        /\ (resets[ch] = 1) <=> (seen[ch] /\ ~Valid(ch))

\* the controller went stale, after that an inverter snapshot was processed
\* and the inverter went stale too: the check that reset the inverter saw
\* the controller still stale and did not reset it again
C8_Witness ==
    /\ resets.ctrl = 1
    /\ resets.inv = 1
    /\ app._last_inv_rx > app._last_ctrl_rx + TIMEOUT_S

\* C9 as stated: in every state the valid flag is true iff a snapshot has
\* been received and less than 10 s have elapsed since the last one.
C9_Original ==
    \A ch \in Channels :
        Valid(ch) <=> (seen[ch] /\ clock - LastRx(ch) < TIMEOUT_S)

\* C9, amended: at the end of every periodic check the valid flag is true
\* iff a snapshot of the channel has been processed and at most 10 s lie
\* between the check that processed the last one and this check.
C9_ValidAfterCheck ==
    [][_poll =>
         \A ch \in Channels :
             Valid(ch)' <=> (seen'[ch] /\ clock' - LastRx(ch)' <= TIMEOUT_S)]_vars

\* a check ran (it processed an inverter snapshot) exactly 10 s after the
\* controller's last snapshot and left the controller valid
C9_Witness ==
    /\ app._ctrl_valid
    /\ clock - app._last_ctrl_rx = TIMEOUT_S
    /\ app._last_inv_rx = clock

\* C10: a channel of which no snapshot was ever processed is not valid, has
\* had no reset, and shows what it showed at construction.
C10_UnseenNeverStale ==
    /\ ~seen.ctrl =>
         /\ resets.ctrl = 0
         /\ ~app._ctrl_valid
         /\ app.var_set = "--" /\ app._last_ctrl_rx = 0
    /\ ~seen.inv =>
         /\ resets.inv = 0
         /\ ~app._inv_valid
         /\ app.var_inv_cur = "--" /\ app._last_inv_rx = 0

\* checks ran for more than the timeout (the inverter went stale) while the
\* controller was never seen
C10_Witness ==
    /\ ~seen.ctrl
    /\ resets.inv = 1
    /\ clock - StartTime > TIMEOUT_S

-----------------------------------------------------------------------------
(* Properties that need the periodic check to keep running, checked under  *)
(* SpecLive                                                                 *)

\* the last value of the clock
LastTick == StartTime + ((MaxTime - StartTime) \div TickStep) * TickStep

Stale(ch) == seen[ch] /\ ~Valid(ch)

\* the last snapshot of ch was processed early enough for the clock to pass
\* its timeout
InHorizon(ch) == LastRx(ch) + TIMEOUT_S < LastTick

\* C11: a valid channel becomes stale without any frame arriving: whatever
\* the bus and the connection do, a channel that is valid is later stale,
\* unless a later snapshot of it is processed (one so late that the clock
\* of the model ends before its timeout).
C11_StaleWithoutFrames ==
    \A ch \in Channels :
        (Valid(ch) /\ InHorizon(ch)) ~> (Stale(ch) \/ ~InHorizon(ch))

\* the controller went stale after the connection had been closed and
\* with nothing left on the queue
C11_Witness ==
    /\ Stale("ctrl")
    /\ _client = 0
    /\ Len(clients) = 1
    /\ ~clients[1].bus
    /\ ~Alive(1)
    /\ _rx_q = <<>>
    /\ clock - app._last_ctrl_rx > TIMEOUT_S

-----------------------------------------------------------------------------
(* Properties of the command handlers, checked under SpecCmd *)

\* this step is a run of a command handler
CmdStep == cmd'.n = cmd.n + 1

\* C12: while no controller snapshot has been processed (none received, or
\* one received and still on the queue), a run of on_start or on_stop ends
\* rejected: nothing is encoded, nothing reaches the bus and no tx event is
\* put on the queue.
C12_RejectedBeforeEncoding ==
    [][(CmdStep /\ cmd'.key \in {"START", "STOP"} /\ ~seen.ctrl) =>
           /\ cmd'.outcome = "rejected"
           /\ cmd'.ctx.has = {}
           /\ cmd'.data = <<>>
           /\ _rx_q' = _rx_q
           /\ published' = published]_vars

\* STOP was rejected on an open connection whose reader had already put a
\* controller event on the queue
C12_Witness ==
    /\ cmd.key = "STOP"
    /\ cmd.outcome = "rejected"
    /\ ~seen.ctrl
    /\ _client # 0
    /\ Len(_rx_q) = 3
    /\ _rx_q[2].type = "telemetry"

\* C13 as stated: once a controller snapshot has been processed, a run of
\* on_start or on_stop on an open connection is accepted and hands the
\* encoder the setpoint of the last processed snapshot.
C13_Claim ==
    [][(/\ CmdStep
        /\ cmd'.key \in {"START", "STOP"}
        /\ seen.ctrl
        /\ _client # 0
        /\ clients[_client].bus) =>
           /\ cmd'.outcome \in {"sent", "send raised"}
           /\ cmd'.ctx.has = {"value"}
           /\ cmd'.ctx.v.value = last_snap.set]_vars

\* the Main state of the last processed controller snapshot is standby
LastMainIsStandby ==
    /\ last_snap # NoSnap
    /\ (last_snap.state_raw \div 16) % 16 = 2

\* C14: the context on_set builds holds mode 0x00 exactly when the Main
\* state of the last processed controller snapshot is 2, else 0x20 (also
\* when none was processed, and after a timeout reset), and as its value the
\* spinbox's value; the payload that reaches the bus is encoded from it.
C14_SetMode ==
    [][(CmdStep /\ cmd'.key = "SET") =>
           /\ cmd'.ctx.has = {"value", "mode"}
           /\ cmd'.ctx.v.mode = (IF LastMainIsStandby THEN 0 ELSE 32)
           /\ cmd'.ctx.v.value = app.var_set_input
           /\ cmd'.outcome = "sent" =>
                  cmd'.data = _build_data(Messages.SET.m, cmd'.ctx)]_vars

\* SET was sent with mode 0x00 and the spinbox's 25 after the controller,
\* last seen in standby with setpoint 22, had gone stale
C14_Witness ==
    /\ cmd.key = "SET"
    /\ cmd.outcome = "sent"
    /\ cmd.ctx.v.mode = 0
    /\ cmd.ctx.v.value = 25
    /\ last_snap.set = 22
    /\ Stale("ctrl")
    /\ app.var_set = "--"

-----------------------------------------------------------------------------
(* Properties of the reader thread and the queue, checked under Spec *)

\* the recv call of reader k returns in this step, with a frame or with None
RecvReturned(k) == clients[k].pc = "wait" /\ clients'[k].pc = "check"

\* the items this step appends to the queue
Added == SubSeq(_rx_q', Len(_rx_q) + 1, Len(_rx_q'))

IsStr(item, text) == item.type = "str" /\ item.text = text

\* C15 as stated: a recv that returns puts one item on the queue (a frame)
\* or none (a timeout).
C15_Original ==
    [][\A k \in 1..Len(clients) :
           RecvReturned(k) => Len(_rx_q') - Len(_rx_q) \in {0, 1}]_vars

\* C15, amended: a recv that returns puts nothing on the queue (a timeout)
\* or exactly three items (a frame): the line of _dbg, then either one
\* decoded event and its text line or the two lines of the unmatched
\* diagnostic.
C15_ThreeItems ==
    [][\A k \in 1..Len(clients) :
           RecvReturned(k) =>
               \/ _rx_q' = _rx_q
               \/ /\ Len(_rx_q') = Len(_rx_q) + 3
                  /\ SubSeq(_rx_q', 1, Len(_rx_q)) = _rx_q
                  /\ IsStr(Added[1], "DBG: RX")
                  /\ \/ Added[2].type = "telemetry" /\ IsStr(Added[3], "TELEM")
                     \/ Added[2].type = "inv" /\ IsStr(Added[3], "INV")
                     \/ /\ IsStr(Added[2], "DBG: not matched")
                        /\ IsStr(Added[3], "CAN RX")]_vars

\* a controller frame has been received: three items are on the queue, one
\* of them the decoded event, and the reader is back at its loop test
C15_Witness ==
    /\ Len(clients) = 1
    /\ clients[1].pc = "check"
    /\ Len(_rx_q) = 3
    /\ IsStr(_rx_q[1], "DBG: RX")
    /\ _rx_q[2].type = "telemetry"
    /\ IsStr(_rx_q[3], "TELEM")

-----------------------------------------------------------------------------
(* The producers and the consumer of the queue, checked under SpecCmd *)

\* this step takes items off the queue
Takes ==
    \/ Len(_rx_q') < Len(_rx_q)
    \/ SubSeq(_rx_q', 1, Len(_rx_q)) # _rx_q

\* this step puts items on the queue and takes none off
Puts == ~Takes /\ Len(_rx_q') > Len(_rx_q)

\* C16 as stated: only a step of a reader thread puts items on the queue,
\* and only _poll takes items off.
C16_Original ==
    [][/\ Puts => Reader(CmdFrames)
       /\ Takes => _poll]_vars

\* C16, amended: items are put on the queue by the reader threads and, on
\* the Tk thread, by open() and by send_from_key; only _poll takes items
\* off.
C16_ProducersConsumer ==
    [][/\ Puts => (Reader(CmdFrames) \/ on_connect
                      \/ on_start \/ on_stop \/ on_set)
       /\ Takes => _poll]_vars

\* the queue holds the two lines of open() and the tx event of a command,
\* none of them put by the reader
C16_Witness ==
    /\ Len(_rx_q) = 3
    /\ IsStr(_rx_q[1], "DBG: expecting")
    /\ IsStr(_rx_q[2], "DBG: GUI queue test")
    /\ _rx_q[3].type = "tx"
    /\ cmd.outcome = "sent"

-----------------------------------------------------------------------------
(* The connection lifecycle, checked under SpecConn *)

\* the reader threads that have not returned, the clients that hold a bus
AliveReaders == {k \in 1..Len(clients) : Alive(k)}

OpenBuses == {k \in 1..Len(clients) : clients[k].bus}

\* C17 as stated: after any sequence of connects and disconnects at most
\* one reader thread is alive and at most one bus is open.
C17_Claim ==
    /\ Cardinality(AliveReaders) <= 1
    /\ Cardinality(OpenBuses) <= 1

-----------------------------------------------------------------------------
(* The queue between the producers and _poll, checked under SpecLive *)

-----------------------------------------------------------------------------
(* The reader thread after an exception and after close() *)

\* C19, checked under Spec: an exception in the reader's loop body never
\* ends the thread.  The step that raises puts the error line on the queue
\* and leaves the reader in its pause; from the pause it goes to the loop
\* test; and the only step that ends the thread is the loop test finding
\* the stop event set.
C19_ErrorKeepsReader ==
    [][\A k \in 1..Len(clients) :
           /\ (clients[k].pc # "sleep" /\ clients'[k].pc = "sleep") =>
                  _rx_q' = Append(_rx_q, RxErrLine)
           /\ clients[k].pc = "sleep" => clients'[k].pc \in {"sleep", "check"}
           /\ (Alive(k) /\ ~Alive(k)') =>
                  (clients[k].pc = "check" /\ clients[k].stop)]_vars

\* a recv has failed, the error line is on the queue, and the reader, not
\* stopped, has called recv again
C19_Witness ==
    /\ Len(clients) = 1
    /\ _rx_q = <<RxErrLine>>
    /\ clients[1].pc = "wait"
    /\ clients[1].bus
    /\ ~clients[1].stop

\* reader k calls recv on the bus in this step
RecvCalled(k) == clients[k].pc = "recv" /\ clients'[k].pc = "wait"

\* C20 as stated, checked under SpecLive: once close() has set the stop
\* event the reader calls recv no more, and it ends.
C20_Claim ==
    /\ [][\A k \in 1..Len(clients) : clients[k].stop => ~RecvCalled(k)]_vars
    /\ \A k \in 1..MaxClients :
           (k <= Len(clients) /\ clients[k].stop)
               ~> (k <= Len(clients) /\ ~Alive(k))

\* the part of C20 the code keeps: a stopped reader ends, whatever the bus
\* does, after at most one more call of recv
C20_Terminates ==
    \A k \in 1..MaxClients :
        (k <= Len(clients) /\ clients[k].stop)
            ~> (k <= Len(clients) /\ ~Alive(k))


-----------------------------------------------------------------------------
(* SpecNib: a connected client with the built-in signatures receives one    *)
(* controller frame, its state byte being any byte, which _poll processes   *)

\* every value of the state byte, byte 7 of a controller frame
StateBytes == 0..255

\* controller frames that differ in the state byte only
StateFrames ==
    {Frame(6160640, TRUE, <<0, 22, 24, 30, 0, 0, 35, b>>) : b \in StateBytes}

InitNib ==
    /\ msg_def = [has_data |-> TRUE, data |-> <<>>, data_template |-> <<>>]
    /\ ctx = [has |-> {}, v |-> [value |-> 0, mode |-> 0]]
    /\ data = <<>>
    /\ encPc = "idle"
    /\ clock = StartTime
    /\ app = InitApp
    /\ _rx_q = <<>>
    /\ clients = <<[cfg |-> DefaultCfg, bus |-> TRUE, stop |-> FALSE,
                    pc |-> "wait"]>>
    /\ _client = 1
    /\ cmd = NoCmd
    /\ seen = [c \in Channels |-> FALSE]
    /\ last_snap = NoSnap
    /\ resets = [c \in Channels |-> 0]
    /\ rx_msg = NoMsg
    /\ published = <<>>

\* lines 178-200: the reader receives the frame
RxState ==
    /\ rx_msg = NoMsg
    /\ \E msg \in StateFrames : ReaderFrame(1, msg) /\ rx_msg' = msg
    /\ UNCHANGED <<encVars, clock, app, _client, cmd, seen, last_snap, resets>>

NextNib == RxState \/ _poll

SpecNib == InitNib /\ [][NextNib]_vars

\* _poll has processed the controller frame whose state byte is b
StateShown(b) == Polled /\ app._ctrl_valid /\ rx_msg.data[8] = b

\* C21 as stated: state byte 0x23 is shown as Main 2, the running state,
\* and Sub 3; 0xFF as Main 15 and Sub 15, both rendered unknown(15).
C21_Original ==
    /\ StateShown(35) =>
           /\ app._last_main_state = 2
           /\ app.var_state_main = "Main: running"
           /\ app.var_state_sub = "Sub:  " \o SUB_STATE[3]
    /\ StateShown(255) =>
           /\ app._last_main_state = 15
           /\ app.var_state_main = "Main: unknown(15)"
           /\ app.var_state_sub = "Sub:  unknown(15)"

\* C21, amended: a state byte 16 * m + s is shown as Main m and Sub s, by
\* the label of the table where the table has one and as unknown(<value>)
\* otherwise (Main 6..15, Sub 5..15); 0x23 is Main 2, the standby state
\* (running is Main 3), and Sub 3; 0xFF is unknown(15) twice.
C21_NibbleDecode ==
    /\ \A m \in 0..15, s \in 0..15 :
           StateShown(16 * m + s) =>
               /\ app._last_main_state = m
               /\ app.var_state_main =
                      "Main: " \o (IF m <= 5 THEN MAIN_STATE[m]
                                   ELSE "unknown(" \o ToString(m) \o ")")
               /\ app.var_state_sub =
                      "Sub:  " \o (IF s <= 4 THEN SUB_STATE[s]
                                   ELSE "unknown(" \o ToString(s) \o ")")
    /\ StateShown(35) =>
           /\ app._last_main_state = 2
           /\ app.var_state_main = "Main: standby"
           /\ app.var_state_sub = "Sub:  before standby"
    /\ StateShown(50) => app.var_state_main = "Main: running"
    /\ StateShown(255) =>
           /\ app._last_main_state = 15
           /\ app.var_state_main = "Main: unknown(15)"
           /\ app.var_state_sub = "Sub:  unknown(15)"

\* the state byte 0xFF was processed and shown
C21_Witness ==
    /\ StateShown(255)
    /\ app.var_state_main = "Main: unknown(15)"
    /\ seen.ctrl


-----------------------------------------------------------------------------
(* Properties of sending by key, checked under SpecPar *)

\* no connection is open: no client, or a client without a bus
NotOpen == IF _client = 0 THEN TRUE ELSE ~clients[_client].bus

\* the schema of the open connection has no section for the key this step
\* asks for
KeyAbsent ==
    IF _client = 0 THEN FALSE
    ELSE cmd'.key \notin DOMAIN clients[_client].cfg.messages

\* the run ended by an exception that left _send_can
Surfaced == cmd'.outcome \in {"raised", "no section", "bad id", "send raised"}

\* C22: a send request made while no connection is open, for a key the
\* schema lacks, or whose bus.send raises, ends by an exception and changes
\* neither the queue nor the application nor the clients.  The queue grows
\* in a send request exactly when bus.send has returned, by one tx event
\* that holds the id, the extended flag and the 8 bytes handed to bus.send.
C22_SendFailure ==
    [][CmdStep =>
           /\ (NotOpen \/ KeyAbsent \/ cmd'.outcome = "send raised") =>
                  /\ Surfaced
                  /\ _rx_q' = _rx_q
                  /\ published' = published
                  /\ app' = app
                  /\ clients' = clients
                  /\ _client' = _client
           /\ NotOpen => cmd'.outcome = "raised"
           /\ KeyAbsent => cmd'.outcome = "no section"
           /\ (_rx_q' # _rx_q) <=> (cmd'.outcome = "sent")
           /\ cmd'.outcome = "sent" =>
                  /\ ~NotOpen
                  /\ ~KeyAbsent
                  /\ Len(cmd'.data) = 8
                  /\ cmd'.id = 6160385
                  /\ cmd'.ext
                  /\ _rx_q' = Append(_rx_q, [type |-> "tx", id |-> cmd'.id,
                                             ext |-> cmd'.ext,
                                             data |-> cmd'.data])]_vars

\* on an open connection the speeds were sent, and then the thresholds were
\* asked for, which the schema has no section for: one tx event, the one of
\* the speeds, is on the queue
C22_Witness ==
    /\ cmd.n = 2
    /\ cmd.key = "PARAMS_TEMP"
    /\ cmd.outcome = "no section"
    /\ _client # 0
    /\ Len(_rx_q) = 1
    /\ _rx_q[1].type = "tx"
    /\ _rx_q[1].data = <<4, 45, 60, 90, 30, 60, 90, 0>>


-----------------------------------------------------------------------------
(* SpecId: a client connected with a configuration file that declares the   *)
(* ids of the two signatures and of SET in any form receives one frame,     *)
(* which _poll processes, and SET is sent                                   *)

\* the forms in which a file declares the id n: an integer, a 0x-prefixed
\* string, a decimal string; and a string int() does not take
IdForms(n) ==
    {IntId(n), StrId("0x" \o HexStr(n)), StrId(ToString(n)), StrId("id")}

\* the usual messages section with the two signatures declared as t and i,
\* ids other than the built-in ones, and the id of SET declared as o
IdMessages(t, i, o) ==
    [k \in DOMAIN Messages \cup {"TELEMETRY", "INVERTER_TELEMETRY"} |->
        IF k = "TELEMETRY" THEN [id |-> t, extended |-> TRUE]
        ELSE IF k = "INVERTER_TELEMETRY" THEN [id |-> i, extended |-> TRUE]
        ELSE IF k = "SET" THEN [Messages[k] EXCEPT !.id = o]
        ELSE Messages[k]]

IdFiles ==
    {IdMessages(t, i, o) :
        t \in IdForms(6161152), i \in IdForms(6161408), o \in IdForms(6160385)}

\* a controller frame and an inverter frame with the declared ids, and a
\* controller frame with the built-in id
IdFrames ==
    {Frame(6161152, TRUE, <<0, 22, 24, 30, 0, 0, 35, 35>>),
     Frame(6161408, TRUE, <<7, 48, 35>>),
     Frame(6160640, TRUE, <<0, 22, 24, 30, 0, 0, 35, 35>>)}

InitId ==
    /\ msg_def = [has_data |-> TRUE, data |-> <<>>, data_template |-> <<>>]
    /\ ctx = [has |-> {}, v |-> [value |-> 0, mode |-> 0]]
    /\ data = <<>>
    /\ encPc = "idle"
    /\ clock = StartTime
    /\ app = InitApp
    /\ _rx_q = <<>>
    /\ \E f \in IdFiles :
           clients = <<[cfg |-> load_from_file(f), bus |-> TRUE,
                        stop |-> FALSE, pc |-> "wait"]>>
    /\ _client = 1
    /\ cmd = NoCmd
    /\ seen = [c \in Channels |-> FALSE]
    /\ last_snap = NoSnap
    /\ resets = [c \in Channels |-> 0]
    /\ rx_msg = NoMsg
    /\ published = <<>>

\* lines 178-235: the reader receives the frame
RxId ==
    /\ rx_msg = NoMsg
    /\ \E msg \in IdFrames : ReaderFrame(1, msg) /\ rx_msg' = msg
    /\ UNCHANGED <<encVars, clock, app, _client, cmd, seen, last_snap, resets>>

NextId == RxId \/ _poll \/ on_set

SpecId == InitId /\ [][NextId]_vars

\* the file declares the id n of the section key as an integer or as a
\* 0x-prefixed string
Declared(key, n) ==
    RxCfg.messages[key].id \in {IntId(n), StrId("0x" \o HexStr(n))}

\* the inbound half of C23: a signature id declared as an integer or as a
\* 0x-prefixed string is the signature's id, and a frame with that id is
\* processed as the channel's snapshot
C23_Inbound ==
    /\ Declared("TELEMETRY", 6161152) =>
           /\ RxCfg.telemetry_id = 6161152
           /\ (Polled /\ rx_msg.arbitration_id = 6161152) => app._ctrl_valid
    /\ Declared("INVERTER_TELEMETRY", 6161408) =>
           /\ RxCfg.inverter_id = 6161408
           /\ (Polled /\ rx_msg.arbitration_id = 6161408) => app._inv_valid

\* C23 as stated: an id declared as a 0x-prefixed string is taken as the
\* same integer as the id declared as an integer, for the two signatures
\* and for a message sent by key: SET goes to the bus with that id.
C23_Claim ==
    /\ C23_Inbound
    /\ (Declared("SET", 6160385) /\ cmd.key = "SET") =>
           /\ cmd.outcome \in {"sent", "send raised"}
           /\ cmd.id = 6160385


-----------------------------------------------------------------------------
(* What a timeout of the controller channel clears, checked under SpecCmd *)

-----------------------------------------------------------------------------
(* SpecRound: _build_data applied to a template of two scaled fields, the   *)
(* second holding the negative of the first                                 *)

\* scales 0.5, 1.0, 1.5 and 0.25: floats that hold them, and their products
\* with a small integer, exactly
Scales == {<<1, 2>>, <<1, 1>>, <<3, 2>>, <<1, 4>>}

RoundTemplate(sc, w) ==
    <<FieldItem("value", sc, w, "le"), FieldItem("mode", sc, 1, "le")>>

InitRound ==
    /\ \E sc \in Scales, w \in {1, 2, 4} :
           msg_def = [has_data |-> FALSE, data |-> <<>>,
                      data_template |-> RoundTemplate(sc, w)]
    /\ \E x \in -MaxVal..MaxVal :
           ctx = [has |-> {"value", "mode"}, v |-> [value |-> x, mode |-> -x]]
    /\ data = <<>>
    /\ encPc = "call"
    /\ clock = StartTime
    /\ app = InitApp
    /\ _rx_q = <<>>
    /\ clients = <<>>
    /\ _client = 0
    /\ cmd = NoCmd
    /\ seen = [c \in Channels |-> FALSE]
    /\ last_snap = NoSnap
    /\ resets = [c \in Channels |-> 0]
    /\ rx_msg = NoMsg
    /\ published = <<>>

SpecRound == InitRound /\ [][NextEnc]_vars

Abs(x) == IF x < 0 THEN -x ELSE x

\* the integer nearest to n/d, a tie going away from zero
HalfAway(n, d) ==
    CHOOSE k \in -(2 * MaxVal)..(2 * MaxVal) :
        \/ 2 * Abs(k * d - n) < d
        \/ 2 * Abs(k * d - n) = d /\ Abs(k) * d > Abs(n)

\* the integer nearest to n/d, a tie going to the even one
HalfEven(n, d) ==
    CHOOSE k \in -(2 * MaxVal)..(2 * MaxVal) :
        \/ 2 * Abs(k * d - n) < d
        \/ 2 * Abs(k * d - n) = d /\ k % 2 = 0

\* value * scale is halfway between two integers
IsTie(x, sc) == (2 * x * sc[1]) % sc[2] = 0 /\ (x * sc[1]) % sc[2] # 0

\* the payload of the two fields, the first rounded to r1 and the second
\* to r2
RoundPayload(r1, r2) ==
    FirstEightPadded(
        ClaimedFieldBytes(r1, msg_def.data_template[1].bytes, "le")
        \o <<r2 % 256>>)

\* C25 as stated: each field holds value * scale rounded to the nearest
\* integer, a tie going away from zero.
C25_Original ==
    encPc = "done" =>
        LET sc == msg_def.data_template[1].scale
        IN  data = RoundPayload(HalfAway(ctx.v.value * sc[1], sc[2]),
                                HalfAway(ctx.v.mode * sc[1], sc[2]))

\* C25, amended: each field holds value * scale rounded to the nearest
\* integer, a tie going to the even integer (0.5 -> 0, 1.5 -> 2, 2.5 -> 2,
\* -2.5 -> -2), at every width and for each field of the template.
C25_HalfEven ==
    encPc = "done" =>
        LET sc == msg_def.data_template[1].scale
        IN  /\ data = RoundPayload(HalfEven(ctx.v.value * sc[1], sc[2]),
                                   HalfEven(ctx.v.mode * sc[1], sc[2]))
            /\ (ctx.v.value = 1 /\ sc = <<1, 2>>) => data[1] = 0
            /\ (ctx.v.value = 3 /\ sc = <<1, 2>>) => data[1] = 2
            /\ (ctx.v.value = 5 /\ sc = <<1, 2>>) => data[1] = 2

\* 2.5 and -2.5 have been encoded in one byte each, as 2 and as -2
C25_Witness ==
    /\ encPc = "done"
    /\ msg_def.data_template = RoundTemplate(<<1, 2>>, 1)
    /\ ctx.v.value = 5
    /\ IsTie(ctx.v.value, <<1, 2>>)
    /\ data = <<2, 254, 0, 0, 0, 0, 0, 0>>


-----------------------------------------------------------------------------
(* Independence of the two channels, checked under Spec *)

\* the liveness record of the controller channel and what is displayed and
\* kept of its snapshot
CtrlRec(a) ==
    <<a._last_ctrl_rx, a._ctrl_valid, a.var_err, a.var_set, a.var_temp,
      a.var_cond, a.var_state_main, a.var_state_sub, a._last_main_state,
      a.var_fan_level_c, a.var_fan_level_e, a.var_fan_pct_c, a.var_fan_pct_e>>

\* the same of the inverter channel
InvRec(a) ==
    <<a._last_inv_rx, a._inv_valid, a.var_inv_cur, a.var_inv_volt,
      a.var_inv_temp, a.var_inv_main, a.var_inv_sub, a.var_inv_errs>>

\* this run of _poll fires the timeout reset of the channel
CtrlFired ==
    ~app'._ctrl_valid /\ (app._ctrl_valid \/ SnapshotIn(_rx_q, "telemetry"))

InvFired ==
    ~app'._inv_valid /\ (app._inv_valid \/ SnapshotIn(_rx_q, "inv"))

IsCtrlEvent(item) == item.type = "telemetry"

IsInvEvent(item) == item.type = "inv"

\* C26: a run of _poll that takes no inverter event off the queue and does
\* not fire the inverter's timeout leaves the inverter's record and
\* displayed values as they were, whatever controller snapshots it processes
\* and whether or not it resets the controller; and vice versa.  In every
\* run each channel's record is what it would be had the queue held the
\* channel's own events only.
C26_Independent ==
    [][_poll =>
           /\ (~SnapshotIn(_rx_q, "inv") /\ ~InvFired) =>
                  InvRec(app') = InvRec(app)
           /\ (~SnapshotIn(_rx_q, "telemetry") /\ ~CtrlFired) =>
                  CtrlRec(app') = CtrlRec(app)
           /\ InvRec(app') =
                  InvRec(PollResult(app, SelectSeq(_rx_q, IsInvEvent), clock))
           /\ CtrlRec(app') =
                  CtrlRec(PollResult(app, SelectSeq(_rx_q, IsCtrlEvent), clock))]_vars

\* the controller has been reset while the inverter, heard later, is valid
\* and shows its values
C26_Witness ==
    /\ Stale("ctrl")
    /\ app.var_set = "--"
    /\ app._inv_valid
    /\ app._last_inv_rx > app._last_ctrl_rx
    /\ app.var_inv_cur = "7"
    /\ app.var_inv_volt = "48"


-----------------------------------------------------------------------------
(* SpecTag: _build_data applied to a template of one field, under every     *)
(* endianness tag and width                                                 *)

\* the tags after line 150 has lower-cased them: the two the code names, and
\* two it does not
Tags == {"le", "be", "little", "big"}

\* 258 = 0x0102 and 16909060 = 0x01020304 have different bytes
TagValues == {0, 1, 258, 513, 65535, 16909060, -2}

InitTag ==
    /\ \E e \in Tags, w \in {1, 2, 3, 4} :
           msg_def = [has_data |-> FALSE, data |-> <<>>,
                      data_template |-> <<FieldItem("value", <<1, 1>>, w, e)>>]
    /\ \E x \in TagValues :
           ctx = [has |-> {"value"}, v |-> [value |-> x, mode |-> 0]]
    /\ data = <<>>
    /\ encPc = "call"
    /\ clock = StartTime
    /\ app = InitApp
    /\ _rx_q = <<>>
    /\ clients = <<>>
    /\ _client = 0
    /\ cmd = NoCmd
    /\ seen = [c \in Channels |-> FALSE]
    /\ last_snap = NoSnap
    /\ resets = [c \in Channels |-> 0]
    /\ rx_msg = NoMsg
    /\ published = <<>>

SpecTag == InitTag /\ [][NextEnc]_vars

\* the one field of the template has been encoded at width 2 or 4
TagEncoded ==
    /\ encPc = "done"
    /\ msg_def.data_template[1].bytes \in {2, 4}

\* the payload holds the value in the byte order e
InOrder(e) ==
    data = FirstEightPadded(
               ClaimedFieldBytes(ctx.v.value, msg_def.data_template[1].bytes, e))

\* C27 as stated: a field whose tag is anything other than 'be' is encoded
\* little-endian, at width 2 and at width 4.
C27_Claim ==
    (TagEncoded /\ msg_def.data_template[1].endian # "be") => InOrder("le")

\* what the code does: at width 2 a field is little-endian exactly when its
\* tag is 'le', at width 4 it is big-endian exactly when its tag is 'be'
C27_TagByWidth ==
    TagEncoded =>
        LET item == msg_def.data_template[1]
        IN  /\ item.bytes = 2 =>
                   IF item.endian = "le" THEN InOrder("le") ELSE InOrder("be")
            /\ item.bytes = 4 =>
                   IF item.endian = "be" THEN InOrder("be") ELSE InOrder("le")


-----------------------------------------------------------------------------
(* The confirmed fan speeds, checked under SpecPar *)

\* the percentage the confirmed table holds for a fan and a level
Confirmed(conf, fan, lvl) ==
    CASE lvl = 0 -> 0
      [] lvl = 1 -> IF fan = "c" THEN conf.c1 ELSE conf.e1
      [] lvl = 2 -> IF fan = "c" THEN conf.c2 ELSE conf.e2
      [] lvl = 3 -> IF fan = "c" THEN conf.c3 ELSE conf.e3

\* C28: the confirmed table changes only in a run of on_send_speeds whose
\* send succeeded, and then takes over the six inputs; a step that edits an
\* input, a run of _poll (telemetry, timeouts), a failed send and every
\* other step leave it as it was.  In every state both fan levels are in
\* 0..3 and each gauge shows the table's entry for its level, 0 at level 0.
C28_ConfirmedTable ==
    /\ [](/\ app.var_fan_level_c \in 0..3
          /\ app.var_fan_level_e \in 0..3
          /\ app.var_fan_pct_c =
                 Confirmed(app._speed_conf, "c", app.var_fan_level_c)
          /\ app.var_fan_pct_e =
                 Confirmed(app._speed_conf, "e", app.var_fan_level_e))
    /\ [][(app'._speed_conf # app._speed_conf) =>
              /\ CmdStep
              /\ cmd'.key = "PARAMS_SPEED"
              /\ cmd'.outcome = "sent"
              /\ app'._speed_conf =
                     [c1 |-> app.var_c1, c2 |-> app.var_c2, c3 |-> app.var_c3,
                      e1 |-> app.var_e1, e2 |-> app.var_e2, e3 |-> app.var_e3]]_vars
    /\ [][(set_speed \/ _poll \/ on_send_temps
           \/ (CmdStep /\ cmd'.outcome # "sent")) =>
              app'._speed_conf = app._speed_conf]_vars

\* speed 1 of the condenser fan was confirmed as 45; the input was then set
\* back to 30 and sent again, which failed: at level 1 the gauge shows 45
C28_Witness ==
    /\ cmd.n = 2
    /\ cmd.key = "PARAMS_SPEED"
    /\ cmd.outcome = "send raised"
    /\ app._speed_conf.c1 = 45
    /\ app.var_c1 = 30
    /\ app.var_fan_level_c = 1
    /\ app.var_fan_pct_c = 45
    /\ app.var_fan_level_e = 3
    /\ app.var_fan_pct_e = 90

==============================================================================
